---- MODULE Spec2Model ----
(***************************************************************************)
(* AutoMed triage backend: the session controller (services/triageService) *)
(* with its collaborators ragService, llmService and the express           *)
(* controller / error handler, as a state machine.                         *)
(*                                                                         *)
(* A processUserMessage call is an async function: it runs atomically from *)
(* one await to the next, and other calls may run in between.  Each        *)
(* in-flight call has a position pc and its local variables.               *)
(***************************************************************************)
EXTENDS Integers, Sequences, FiniteSets, TLC

(* ---------------------------------------------------------------- bounds *)
MaxSessions == 2
MaxCalls == 2

(* config.triage.maxConversationTurns = parseInt(MAX_CONVERSATION_TURNS || '10'):
   the configured limit, here a deployment with MAX_CONVERSATION_TURNS=1.
   No code of the backend reads it. *)
maxConversationTurns == 1

SessionIds == 1..MaxSessions
CallIds == 1..MaxCalls

(* ------------------------------------------------------------ JS values *)
Null == [type |-> "null"]
Undefined == "<undefined>"
UndefinedList == <<"<undefined>">>

(* Texts are sequences of words; "" is the empty sequence. *)
EmptyString == <<>>
UserTexts == { <<"mild", "headache">>, <<"I", "CAN'T", "BREATHE">> }
Contexts == { <<"Source:", "CDC", "fever", "guidance">> }
Replies == { <<"How", "long", "have", "you", "had", "this?">> }
UndefinedText == <<Undefined>>

Providers == {"openai", "langchain", "unsupported"}

(* generateSystemContext: the template with the patient's fields filled in *)
generateSystemContext == <<"You", "are", "AutoMed">>

(* ---------------------------------------------------------- llmService *)
(* What the provider can answer to the analysis request. *)
UrgencyOutputs == {"Emergency", "Non-urgent", Undefined}

AnalysisObjects ==
  { [canComplete |-> TRUE, urgencyLevel |-> u,
     recommendedAction |-> "Seek care", reasoning |-> "Because",
     missingInformation |-> <<>>] : u \in UrgencyOutputs }
  \cup
  { [canComplete |-> FALSE, urgencyLevel |-> Undefined,
     recommendedAction |-> Undefined, reasoning |-> Undefined,
     missingInformation |-> <<"duration">>] }

(* The provider's answer text, by what JSON.parse makes of it. *)
AnalysisTexts ==
  { [kind |-> "json_object", value |-> o] : o \in AnalysisObjects }
  \cup { [kind |-> "json_null"], [kind |-> "json_primitive"], [kind |-> "not_json"] }

AnalysisOutcomes ==
  { [ok |-> TRUE, text |-> t] : t \in AnalysisTexts } \cup { [ok |-> FALSE] }

(* A JS value that is neither null nor an object: every property of it is
   undefined. *)
PrimitiveValue ==
  [canComplete |-> FALSE, urgencyLevel |-> Undefined,
   recommendedAction |-> Undefined, reasoning |-> Undefined,
   missingInformation |-> UndefinedList]

(* JSON.parse: [threw, value] *)
JSONparse(text) ==
  CASE text.kind = "json_object" -> [threw |-> FALSE, value |-> text.value]
    [] text.kind = "json_null" -> [threw |-> FALSE, value |-> Null]
    [] text.kind = "json_primitive" -> [threw |-> FALSE, value |-> PrimitiveValue]
    [] OTHER -> [threw |-> TRUE, value |-> Null]

SystemErrorAnalysis ==
  [canComplete |-> FALSE, urgencyLevel |-> Undefined,
   recommendedAction |-> Undefined, reasoning |-> Undefined,
   missingInformation |-> <<"Unable to analyze due to system error">>]

FormatErrorAnalysis ==
  [canComplete |-> FALSE, urgencyLevel |-> Undefined,
   recommendedAction |-> Undefined, reasoning |-> Undefined,
   missingInformation |-> <<"Unable to analyze due to response format error">>]

(* LangChainAdapter.generateStructuredAnalysis *)
generateStructuredAnalysis(outcome) ==
  IF ~outcome.ok THEN SystemErrorAnalysis
  ELSE LET parsed == JSONparse(outcome.text)
       IN IF parsed.threw THEN FormatErrorAnalysis ELSE parsed.value

(* llmService.generateAnalysis: the value it resolves to; Null stands for both
   JS null and undefined (no branch taken), which fail alike on a property
   access *)
generateAnalysis(provider, outcome) ==
  IF provider = "openai" THEN
    IF ~outcome.ok THEN SystemErrorAnalysis
    ELSE LET parsed == JSONparse(outcome.text)
         IN IF parsed.threw THEN SystemErrorAnalysis ELSE parsed.value
  ELSE IF provider = "langchain" THEN generateStructuredAnalysis(outcome)
  ELSE Null


(* llmService.generateResponse: the provider call succeeds with a reply or
   fails; an unconfigured provider takes neither branch and the function
   returns undefined. *)
GenerationOutcomes(provider) ==
  IF provider \in {"openai", "langchain"}
  THEN { [ok |-> TRUE, text |-> r] : r \in Replies } \cup { [ok |-> FALSE, text |-> UndefinedText] }
  ELSE { [ok |-> TRUE, text |-> UndefinedText] }

(* -------------------------------------------------------- triageService *)
Message(role, content) == [role |-> role, content |-> content]

pushFront(messages, msg) == <<msg>> \o messages

(* Array.prototype.push *)
push(messages, msg) == Append(messages, msg)

(* session.messages[0].content =
     `${session.messages[0].content}\n\nRelevant medical information: ${relevantInfo}` *)
enhanceSystemContext(messages, relevantInfo) ==
  [messages EXCEPT ![1].content = @ \o <<"Relevant medical information:">> \o relevantInfo]

sessionWithoutGreeting(systemContext, initialMessage, userId) ==
  [patientId |-> userId,
   messages |-> << Message("system", systemContext) >>,
   complete |-> FALSE,
   triageResult |-> Null]

(* createSession: the stored session *)
newSession(systemContext, initialMessage, userId) ==
  [patientId |-> userId,
   messages |-> << Message("system", systemContext), Message("assistant", initialMessage) >>,
   complete |-> FALSE,
   triageResult |-> Null]

(* analyzeForTriageCompletion, given what generateAnalysis returned;
   reading a property of null or undefined throws a TypeError *)
analyzeForTriageCompletion(analysis) ==
  IF analysis = Null THEN
    [threw |-> TRUE, canComplete |-> FALSE, result |-> Null, missingInformation |-> UndefinedList]
  ELSE IF analysis.canComplete THEN
    [threw |-> FALSE, canComplete |-> TRUE,
     result |-> [urgencyLevel |-> analysis.urgencyLevel,
                 recommendedAction |-> analysis.recommendedAction,
                 reasoning |-> analysis.reasoning],
     missingInformation |-> UndefinedList]
  ELSE
    [threw |-> FALSE, canComplete |-> FALSE, result |-> Null,
     missingInformation |-> analysis.missingInformation]

completeWithoutResult(session, analysisResult) ==
  IF analysisResult.canComplete THEN [session EXCEPT !.complete = TRUE] ELSE session

assignStatus(session, analysisResult) ==
  [session EXCEPT !.complete = analysisResult.canComplete,
                  !.triageResult = IF analysisResult.canComplete
                                   THEN analysisResult.result ELSE Null]

(* if (analysisResult.canComplete) { session.complete = true;
                                     session.triageResult = analysisResult.result; } *)
completeTriage(session, analysisResult) ==
  IF analysisResult.canComplete
  THEN [session EXCEPT !.complete = TRUE, !.triageResult = analysisResult.result]
  ELSE session

(* the value processUserMessage returns *)
turnResult(response, analysisResult) ==
  IF analysisResult.canComplete
  THEN [message |-> response, triageComplete |-> TRUE,
        urgencyLevel |-> analysisResult.result.urgencyLevel,
        recommendedAction |-> analysisResult.result.recommendedAction]
  ELSE [message |-> response, triageComplete |-> FALSE,
        urgencyLevel |-> Undefined, recommendedAction |-> Undefined]

(* ------------------------------------------- controller and errorHandler *)
NoResponse == [status |-> 0]

(* x || null *)
orNull(x) == IF x = Undefined THEN "<null>" ELSE x

(* processMessage: res.json({...}) *)
messageResponse(r) ==
  [status |-> 200, success |-> TRUE, response |-> r.message, complete |-> r.triageComplete,
   urgencyLevel |-> orNull(r.urgencyLevel), recommendedAction |-> orNull(r.recommendedAction)]

badRequest == [status |-> 400, error |-> "Session ID and message are required"]

(* errorHandler: err.statusCode is undefined (0) for a plain Error *)
errorHandler(err) ==
  LET statusCode == IF err.statusCode = 0 THEN 500 ELSE err.statusCode
  IN [status |-> statusCode, success |-> FALSE,
      error |-> IF statusCode = 500 THEN "Internal server error" ELSE err.message]

ErrorWithoutMessage(message) == [name |-> "Error", message |-> "", statusCode |-> 0]

Error(message) == [name |-> "Error", message |-> message, statusCode |-> 0]
NoError == [name |-> "", message |-> "", statusCode |-> 0]
TypeError == [name |-> "TypeError", message |-> "Cannot read properties", statusCode |-> 0]

(* ------------------------------------- LLMInterface ("llm interface.js") *)
(* config.maxRetries = parseInt(process.env.LLM_MAX_RETRIES || '3'): the
   values tried; 0 stands for every falsy value (0, NaN) *)
MaxConfiguredRetries == 3
ConfiguredRetries == 0..MaxConfiguredRetries

(* config.provider as LLMInterface reads it; initialize() knows the first two
   (and 'langchain-local', which behaves as 'langchain-openai' here) *)
LLMProviders == {"openai", "langchain-openai", "langchain"}

(* error.response?.status of a failed provider call; 0: the error carries no
   response (network error, timeout), the status is undefined *)
Statuses == {429, 500, 503, 400, 401, 0}

(* what the provider call resolves to: a reply, a reply in which the model
   goes on as the human, or no content *)
ProviderReplies == Replies \cup { <<"Rest.", "Human:", "thanks">>, UndefinedText }

(* new LLMInterface(): this.maxRetries = config.maxRetries || 3 *)
LLMInterface(provider, maxRetries) ==
  [provider |-> provider,
   maxRetries |-> IF maxRetries = 0 THEN 3 ELSE maxRetries,
   initialized |-> FALSE,
   pc |-> "idle", attempt |-> 0, failures |-> <<>>, delay |-> 0,
   returned |-> UndefinedText, error |-> ""]

(* sanitizeResponse: '' for no text, else the text up to the first human
   prefix *)
sanitizeResponse(text) ==
  IF text = UndefinedText THEN EmptyString
  ELSE LET cut == { i \in DOMAIN text : text[i] \in {"Human:", "User:", "HUMAN:", "USER:"} }
       IN IF cut = {} THEN text
          ELSE SubSeq(text, 1, (CHOOSE i \in cut : \A j \in cut : i <= j) - 1)

(* error.response?.status === 429 || error.response?.status >= 500 *)
retryable(status) == status = 429 \/ status >= 500

linearDelay(attempt) == attempt * 1000

(* Math.pow(2, attempt) * 1000 *)
backoffDelay(attempt) == (2 ^ attempt) * 1000

(* --------------------------- MedicalRAGSystem (utils/medicalEmbeddings.js) *)
MaxDocs == 3
MaxWords == 3

(* A retrieved document, by the lengths of its content and text strings; 0 is
   the empty or missing string. *)
RetrievedDocs ==
  { [content |-> 60, text |-> 0, truncated |-> FALSE],
    [content |-> 150, text |-> 0, truncated |-> FALSE],
    [content |-> 0, text |-> 170, truncated |-> FALSE],
    [content |-> 0, text |-> 0, truncated |-> FALSE] }
DocLists == UNION { [1..n -> RetrievedDocs] : n \in 0..MaxDocs }

(* this.options.maxContextLength: 4000 by default *)
ContextLengths == {0, 100, 120, 200, 250, 4000}

(* doc.content || doc.text || '' *)
contentOf(doc) == IF doc.content # 0 THEN doc.content ELSE doc.text

wholeString(string, start, end) == string

(* String.prototype.substring on a string of the given length: the length
   of the result *)
substring(string, start, end) ==
  LET hi == IF end < string THEN end ELSE string
  IN IF hi > start THEN hi - start ELSE 0

(* _truncateContext: the loop from document i on, totalLength so far *)
RECURSIVE truncateFrom(_, _, _, _)
truncateFrom(docs, i, totalLength, maxLength) ==
  IF i > Len(docs) THEN <<>>
  ELSE LET contentLength == contentOf(docs[i])
       IN IF totalLength + contentLength <= maxLength
          THEN <<docs[i]>> \o truncateFrom(docs, i + 1, totalLength + contentLength, maxLength)
          ELSE LET remainingSpace == maxLength - totalLength
               IN IF remainingSpace > 100
                  THEN << [docs[i] EXCEPT !.content = substring(contentLength, 0, remainingSpace),
                                          !.truncated = TRUE] >>
                  ELSE <<>>

(* a loop that goes on after a document that does not fit *)
RECURSIVE skipFrom(_, _, _, _)
skipFrom(docs, i, totalLength, maxLength) ==
  IF i > Len(docs) THEN <<>>
  ELSE IF totalLength + contentOf(docs[i]) <= maxLength
  THEN <<docs[i]>> \o skipFrom(docs, i + 1, totalLength + contentOf(docs[i]), maxLength)
  ELSE skipFrom(docs, i + 1, totalLength, maxLength)

skipOverflowing(docs, maxLength) == skipFrom(docs, 1, 0, maxLength)

truncateContext(docs, maxLength) == truncateFrom(docs, 1, 0, maxLength)

(* The model's answer: words (maximal runs of word characters) with one
   separator between neighbours, so that the places between tokens are the
   \b positions of a regular expression. *)
Words == {"EMERGENCY", "urgent", "Semi", "NON"}
Separators == {" ", "-"}

interleave(words, separators) ==
  [i \in 1..(2 * Len(words) - 1) |->
     IF i % 2 = 1 THEN words[(i + 1) \div 2] ELSE separators[i \div 2]]

TriageResponses ==
  UNION { { interleave(w, s) : w \in [1..n -> Words], s \in [1..(n - 1) -> Separators] }
          : n \in 1..MaxWords }

(* the i flag: letters compare without case *)
toUpperCase(word) ==
  CASE word = "urgent" -> "URGENT"
    [] word = "Semi" -> "SEMI"
    [] OTHER -> word

(* pattern.test(text) for /\bPATTERN\b/i, the pattern given as its tokens *)
test(pattern, text) ==
  \E k \in 0..(Len(text) - Len(pattern)) :
    \A j \in 1..Len(pattern) : toUpperCase(text[k + j]) = pattern[j]

(* urgencyPatterns, in the order Object.entries gives them *)
urgencyPatterns ==
  << [level |-> "EMERGENCY", pattern |-> <<"EMERGENCY">>],
     [level |-> "URGENT", pattern |-> <<"URGENT">>],
     [level |-> "SEMI-URGENT", pattern |-> <<"SEMI", "-", "URGENT">>],
     [level |-> "NON-URGENT", pattern |-> <<"NON", "-", "URGENT">>] >>

(* the forEach over urgencyPatterns: every matching pattern assigns
   urgencyLevel, so the last one that matches stays *)
RECURSIVE forEachPattern(_, _, _)
forEachPattern(i, urgencyLevel, triageResponse) ==
  IF i > Len(urgencyPatterns) THEN urgencyLevel
  ELSE forEachPattern(i + 1,
                      IF test(urgencyPatterns[i].pattern, triageResponse)
                      THEN urgencyPatterns[i].level ELSE urgencyLevel,
                      triageResponse)

extractUrgencyLevel(triageResponse) == forEachPattern(1, "UNKNOWN", triageResponse)

(* processTriage after the retrieval: its options, locals and position *)
MedicalRAGSystem(maxContextLength, relevantDocs) ==
  [pc |-> "retrieved", maxContextLength |-> maxContextLength,
   relevantDocs |-> relevantDocs, truncatedDocs |-> <<>>,
   triageResponse |-> <<>>, urgencyLevel |-> "", referenceCount |-> 0]

(* ------------------- MedicalEmbeddingsUtility (utils/medicalEmbeddings.js) *)
MaxBatch == 2
MaxVectors == 3

(* document and query texts *)
Documents == {"aspirin", "fever", "asthma"}
Queries == Documents \cup {"rash"}
TextLists == UNION { [1..n -> Documents] : n \in 0..MaxBatch }

(* this.model(text, { pooling: 'mean' }): the embedding of a text, a fixed
   vector per text, different texts having different vectors *)
embedding(text) ==
  CASE text = "aspirin" -> <<0, 0>>
    [] text = "fever" -> <<3, 0>>
    [] text = "asthma" -> <<0, 1>>
    [] OTHER -> <<2, 2>>

(* embedText: one embedding per text, in order *)
embedText(texts) == [i \in DOMAIN texts |-> embedding(texts[i])]

(* the metadata object that comes with a document *)
metadataOf(texts) == [i \in DOMAIN texts |-> [source |-> texts[i]]]

(* k: the default 5, and 1 *)
SearchSizes == {1, 5}

(* Faiss.IndexFlatL2: the vectors in the order they were added; search gives
   the positions (from 0) of the k nearest by squared L2 distance, nearest
   first, in any order among equally distant ones, and -1 where the index has
   fewer than k vectors *)
L2(a, b) == (a[1] - b[1]) * (a[1] - b[1]) + (a[2] - b[2]) * (a[2] - b[2])

IndexFlatL2search(index, query, k) ==
  LET n == Len(index)
      nearestFirst == { p \in [1..n -> 0..(n - 1)] :
                          /\ \A i, j \in 1..n : i < j => p[i] # p[j]
                          /\ \A i, j \in 1..n :
                               i < j => L2(index[p[i] + 1], query) <= L2(index[p[j] + 1], query) }
  IN { [ids |-> [i \in 1..k |-> IF i <= n THEN p[i] ELSE -1],
        distances |-> [i \in 1..k |-> IF i <= n THEN L2(index[p[i] + 1], query) ELSE -1]]
       : p \in nearestFirst }

(* search: the loop that formats the results *)
RECURSIVE formatResults(_, _, _)
formatResults(searchResults, i, documentMetadata) ==
  IF i > Len(searchResults.ids) THEN <<>>
  ELSE LET idx == searchResults.ids[i]
       IN (IF idx >= 0 /\ idx < Len(documentMetadata)
           THEN << [source |-> documentMetadata[idx + 1].source,
                    distance |-> searchResults.distances[i]] >>
           ELSE <<>>)
          \o formatResults(searchResults, i + 1, documentMetadata)

(* Array.prototype.filter((_, i) => keepIndices[i]), keepIndices[i] =
   !indicesToRemove.includes(i), positions counted from 0 *)
RECURSIVE filterKept(_, _, _)
filterKept(array, i, indicesToRemove) ==
  IF i > Len(array) THEN <<>>
  ELSE (IF (i - 1) \in indicesToRemove THEN <<>> ELSE <<array[i]>>)
       \o filterKept(array, i + 1, indicesToRemove)

(* filterFn: null, or a function of a result that accepts those of the
   sources in accepts *)
NoFilter == [given |-> FALSE, accepts |-> {}]
FilterFns == {NoFilter} \cup { [given |-> TRUE, accepts |-> s] :
                                 s \in { {"aspirin", "fever"}, {"asthma"} } }

(* k of getMedicalContext *)
ContextSizes == {1, 2}

unsliced(array, end) == array

(* Array.prototype.slice(0, end) *)
slice(array, end) == SubSeq(array, 1, IF end < Len(array) THEN end ELSE Len(array))

(* results.filter(filterFn) *)
RECURSIVE filter(_, _)
filter(results, filterFn) ==
  IF results = <<>> THEN <<>>
  ELSE (IF results[1].source \in filterFn.accepts THEN <<results[1]>> ELSE <<>>)
       \o filter(SubSeq(results, 2, Len(results)), filterFn)

(* getMedicalContext after search resolved with results: the documents it
   returns (formatOutput false) or writes into the context string *)
getMedicalContext(results, k, formatOutput, filterFn) ==
  LET kept == IF filterFn.given THEN slice(filter(results, filterFn), k) ELSE results
  IN IF formatOutput THEN slice(kept, k) ELSE kept

NoCall == [op |-> "", threw |-> FALSE, texts |-> <<>>, indicesToRemove |-> {},
           query |-> "", k |-> 0, results |-> <<>>, filterFn |-> NoFilter,
           reindex |-> FALSE, status |-> ""]

(* new MedicalEmbeddingsUtility(): index, documentEmbeddings and
   documentMetadata are null (has... FALSE); call is the last method call,
   its arguments and outcome *)
MedicalEmbeddingsUtility ==
  [hasIndex |-> FALSE, index |-> <<>>,
   hasDocuments |-> FALSE, documentEmbeddings |-> <<>>, documentMetadata |-> <<>>,
   call |-> NoCall]

(* buildFaissIndex: reading embeddings[0].length throws a TypeError for an
   empty list, before anything is assigned; [threw, util] *)
buildFaissIndex(util, embeddings) ==
  IF embeddings = <<>> THEN [threw |-> TRUE, util |-> util]
  ELSE [threw |-> FALSE, util |-> [util EXCEPT !.hasIndex = TRUE, !.index = embeddings]]

(* indexDocuments from the point embedText has resolved: the assignments and
   buildFaissIndex; [threw, util] *)
indexDocuments(util, texts) ==
  LET embeddings == embedText(texts)
      stored == [util EXCEPT !.hasDocuments = TRUE,
                             !.documentEmbeddings = embeddings,
                             !.documentMetadata = metadataOf(texts)]
  IN buildFaissIndex(stored, embeddings)

(* updateIndex from the point embedText has resolved: add to the index or
   build one (the log line after add reads this.documentMetadata.length),
   then the new embeddings and metadata; [threw, util] *)
updateIndex(util, newTexts) ==
  LET newEmbeddings == embedText(newTexts)
      added == IF util.hasIndex
               THEN [threw |-> ~util.hasDocuments,
                     util |-> [util EXCEPT !.index = @ \o newEmbeddings]]
               ELSE buildFaissIndex(util, newEmbeddings)
  IN IF added.threw THEN added
     ELSE [threw |-> FALSE,
           util |-> [added.util EXCEPT
                       !.hasDocuments = TRUE,
                       !.documentEmbeddings =
                          IF util.hasDocuments THEN @ \o newEmbeddings ELSE newEmbeddings,
                       !.documentMetadata =
                          IF util.hasDocuments THEN @ \o metadataOf(newTexts)
                          ELSE metadataOf(newTexts)]]

(* removeDocuments up to its saves; [threw, util] *)
removeDocuments(util, indicesToRemove) ==
  IF ~util.hasDocuments THEN [threw |-> FALSE, util |-> util]
  ELSE LET filteredEmbeddings == filterKept(util.documentEmbeddings, 1, indicesToRemove)
           filteredMetadata == filterKept(util.documentMetadata, 1, indicesToRemove)
           stored == [util EXCEPT !.documentEmbeddings = filteredEmbeddings,
                                  !.documentMetadata = filteredMetadata]
       IN buildFaissIndex(stored, filteredEmbeddings)

(* MedicalRAGSystem.addMedicalDocuments(documents, reindex), documents
   having the given texts: [status, util]. With reindex, existingTexts is
   the empty list and existingMetadata the stored metadata; indexDocuments
   throws when the two lists it is given differ in length. *)
addMedicalDocuments(util, texts, reindex) ==
  LET existingMetadata == IF util.hasDocuments THEN util.documentMetadata ELSE <<>>
      allTexts == <<>> \o texts
      allMetadata == existingMetadata \o metadataOf(texts)
      done == IF ~reindex THEN updateIndex(util, texts)
              ELSE IF Len(allTexts) # Len(allMetadata) THEN [threw |-> TRUE, util |-> util]
              ELSE indexDocuments(util, allTexts)
  IN [status |-> IF done.threw THEN "error" ELSE "success", util |-> done.util]

(* search from the point the query embedding is there: this.index.search and
   the loop over the ids, on the index and metadata given; the result lists
   it can return *)
search(index, documentMetadata, query, k) ==
  { formatResults(searchResults, 1, documentMetadata) :
      searchResults \in IndexFlatL2search(index, embedding(query), k) }

(* --------------------------- a search and an index write under way at once *)
(* what a search reads of the utility: the index and the metadata *)
NoPair == [hasIndex |-> FALSE, index |-> <<>>, documentMetadata |-> <<>>]
pairOf(util) ==
  [hasIndex |-> util.hasIndex, index |-> util.index,
   documentMetadata |-> util.documentMetadata]

(* a search activation: position, arguments, the index as it was at the call,
   the pair read when the index was queried, and the results *)
NoSearch ==
  [pc |-> "idle", query |-> "", k |-> 0, indexAtCall |-> <<>>, read |-> NoPair,
   results |-> <<>>]

(* a write activation: position, arguments, and the pair before the write and
   after it *)
NoWrite ==
  [pc |-> "idle", op |-> "", texts |-> <<>>, before |-> NoPair, after |-> NoPair]

indexCaptured(activation, util) == activation.indexAtCall

(* this.index, read at the statement this.index.search(...) *)
indexRead(activation, util) == util.index

(* ------------------------ buildFaissIndex and updateIndex, vector lengths *)
MaxDim == 3

(* embeddingDim, and the lengths the model's output can have *)
Dims == 1..MaxDim

(* The embedding of document i of a call, length numbers long: component j is
   10 * i + j, so that a number tells which document and position it is of. *)
embeddingOfLength(i, length) == [j \in 1..length |-> 10 * i + j]

(* the lists of embeddings embedText can return, by the lengths of their
   vectors *)
EmbeddingLists ==
  UNION { { [i \in 1..n |-> embeddingOfLength(i, lengths[i])] : lengths \in [1..n -> Dims] }
          : n \in 1..MaxBatch }

(* Array.prototype.flat, and new Float32Array of it: these numbers are exact
   in 32 bits *)
RECURSIVE flat(_)
flat(embeddings) ==
  IF embeddings = <<>> THEN <<>>
  ELSE embeddings[1] \o flat(SubSeq(embeddings, 2, Len(embeddings)))

(* Faiss.IndexFlatL2(d).add(x): x is one flat array, read as Len(x) / d
   vectors of d numbers each; faiss-node throws when Len(x) is not a multiple
   of d *)
IndexFlatL2add(index, d, x) ==
  IF Len(x) % d # 0 THEN [threw |-> TRUE, index |-> index]
  ELSE [threw |-> FALSE,
        index |-> index \o [v \in 1..(Len(x) \div d) |->
                              [j \in 1..d |-> x[(v - 1) * d + j]]]]

(* a MedicalEmbeddingsUtility with embeddingDim d, as far as the lengths of
   vectors go: its index and the last call that added to it *)
FaissStore(d) ==
  [embeddingDim |-> d, hasIndex |-> FALSE, index |-> <<>>,
   op |-> "", embeddings |-> <<>>, threw |-> FALSE]

(* ---------------------------------- MedicalRAGSystem.expandMedicalQuery *)
(* the strings of expandMedicalQuery, character by character *)
chars ==
  [pain |-> <<"p", "a", "i", "n">>,
   headache |-> <<"h", "e", "a", "d", "a", "c", "h", "e">>,
   Headache |-> <<"H", "e", "a", "d", "a", "c", "h", "e">>,
   ache |-> <<"a", "c", "h", "e">>,
   cough |-> <<"c", "o", "u", "g", "h">>,
   fever |-> <<"f", "e", "v", "e", "r">>,
   asthma |-> <<"a", "s", "t", "h", "m", "a">>,
   wheezing |-> <<"w", "h", "e", "e", "z", "i", "n", "g">>,
   discomfort |-> <<"d", "i", "s", "c", "o", "m", "f", "o", "r", "t">>,
   soreness |-> <<"s", "o", "r", "e", "n", "e", "s", "s">>,
   migraine |-> <<"m", "i", "g", "r", "a", "i", "n", "e">>,
   headPain |-> <<"h", "e", "a", "d", " ", "p", "a", "i", "n">>,
   cephalgia |-> <<"c", "e", "p", "h", "a", "l", "g", "i", "a">>,
   expectoration |-> <<"e", "x", "p", "e", "c", "t", "o", "r", "a", "t", "i", "o", "n">>,
   hacking |-> <<"h", "a", "c", "k", "i", "n", "g">>,
   reactiveAirwayDisease |-> <<"r", "e", "a", "c", "t", "i", "v", "e", " ", "a", "i", "r", "w", "a", "y", " ", "d", "i", "s", "e", "a", "s", "e">>,
   bronchialAsthma |-> <<"b", "r", "o", "n", "c", "h", "i", "a", "l", " ", "a", "s", "t", "h", "m", "a">>,
   alsoConsider |-> <<" ", "(", "a", "l", "s", "o", " ", "c", "o", "n", "s", "i", "d", "e", "r", ":", " ">>]

(* Strings are sequences of characters here: includes() compares characters,
   so that "ache" occurs in "headache". *)
QueryWords == { chars.pain, chars.Headache, chars.ache, chars.cough, chars.fever, chars.asthma, chars.wheezing }

RECURSIVE join(_, _)
join(strings, separator) ==
  IF strings = <<>> THEN <<>>
  ELSE IF Len(strings) = 1 THEN strings[1]
  ELSE strings[1] \o separator \o join(SubSeq(strings, 2, Len(strings)), separator)

ExpandQueries ==
  UNION { { join(w, <<" ">>) : w \in [1..n -> QueryWords] } : n \in 1..MaxWords }

(* String.prototype.toLowerCase, character by character *)
lowerCase(string) == [i \in DOMAIN string |-> IF string[i] = "H" THEN "h" ELSE string[i]]

(* String.prototype.includes, character by character *)
includesString(string, searchString) ==
  \E k \in 0..(Len(string) - Len(searchString)) :
    \A j \in 1..Len(searchString) : string[k + j] = searchString[j]

(* new RegExp(`\\b${entity}\\b`, 'i').test(query): the entity between two
   word boundaries; the space is the only character that is not a word
   character *)
regexTest(entity, query) ==
  \E k \in 0..(Len(query) - Len(entity)) :
    /\ \A j \in 1..Len(entity) : lowerCase(query)[k + j] = entity[j]
    /\ k = 0 \/ query[k] = " "
    /\ k + Len(entity) = Len(query) \/ query[k + Len(entity) + 1] = " "

(* entityCategories and expansions, the part of the tables about these
   words; a category is the list of its entities, and expansions gives the
   terms of an entity, none for an entity it does not know *)
entityCategories ==
  << <<chars.pain, chars.fever, chars.cough, chars.headache>>, <<chars.asthma>> >>

expansions(entity) ==
  IF entity = chars.pain THEN <<chars.discomfort, chars.ache, chars.soreness>>
  ELSE IF entity = chars.headache THEN <<chars.migraine, chars.headPain, chars.cephalgia>>
  ELSE IF entity = chars.cough THEN <<chars.expectoration, chars.hacking, chars.wheezing>>
  ELSE IF entity = chars.asthma THEN <<chars.reactiveAirwayDisease, chars.bronchialAsthma, chars.wheezing>>
  ELSE <<>>

(* Array.prototype.filter on a list *)
RECURSIVE filterOut(_, _)
filterOut(array, dropped) ==
  IF array = <<>> THEN <<>>
  ELSE (IF array[1] \in dropped THEN <<>> ELSE <<array[1]>>)
       \o filterOut(SubSeq(array, 2, Len(array)), dropped)

(* extractMedicalEntities: the entities found, category by category in the
   order of the tables *)
extractMedicalEntities(query) ==
  LET found(category) ==
        filterOut(category, { entity \in { category[i] : i \in DOMAIN category } :
                                ~regexTest(entity, query) })
  IN found(entityCategories[1]) \o found(entityCategories[2])

allTerms(terms, query) == terms

(* terms.filter(term => !query.toLowerCase().includes(term.toLowerCase())) *)
newTermsOf(terms, query) ==
  filterOut(terms, { term \in { terms[i] : i \in DOMAIN terms } :
                       includesString(lowerCase(query), lowerCase(term)) })

(* expandMedicalQuery: the loop over the found entities from entity i on;
   [expandedQuery, appended]: the string so far and the terms appended *)
RECURSIVE expandFrom(_, _, _, _)
expandFrom(entities, i, query, sofar) ==
  IF i > Len(entities) THEN sofar
  ELSE LET newTerms == newTermsOf(expansions(entities[i]), query)
       IN expandFrom(entities, i + 1, query,
            IF Len(newTerms) > 0
            THEN [expandedQuery |-> sofar.expandedQuery \o chars.alsoConsider
                                      \o join(newTerms, <<",", " ">>) \o <<")">>,
                  appended |-> sofar.appended \o newTerms]
            ELSE sofar)

expandMedicalQuery(query) ==
  expandFrom(extractMedicalEntities(query), 1, query,
             [expandedQuery |-> query, appended |-> <<>>])

(* an expandMedicalQuery call: its argument, position and what it returned *)
ExpandCall(query) ==
  [pc |-> "called", query |-> query, expandedQuery |-> <<>>, appended |-> <<>>]

(* ------------------------------------------------------------------ state *)
VARIABLES
  config,          \* config.provider, fixed at start-up
  activeSessions,  \* the session Map; session ids are 1..Len(activeSessions)
  isInitialized,   \* ragService
  calls,           \* the processMessage requests: position and local variables;
                   \* turn records which user message of its session the call
                   \* pushed, saved whether its triage record was created (history
                   \* only, nothing reads them)
  startResponse,   \* the HTTP response to the last POST /triage/start
  resultResponse,  \* the last GET /triage/result/:sessionId: what the service
                   \* returned and the HTTP response
  llm,             \* the LLMInterface singleton and the position and locals of
                   \* its generateResponse call
  emb,             \* the MedicalEmbeddingsUtility object and its last method call
  rag,             \* a MedicalRAGSystem.processTriage call
  expansion,       \* a MedicalRAGSystem.expandMedicalQuery call
  faiss,           \* the Faiss index of a MedicalEmbeddingsUtility, by vector lengths
  tasks,           \* a search and a write of the utility, each suspended at an await
  mock,            \* a call of the frontend's offline mock service: its inputs
                   \* (chat history, patient data, localStorage) and what it returned
  chat             \* the ChatInterface component (chatHistory, userInput,
                   \* isProcessing, its timers and pending calls) and the module
                   \* variables of the staged triage service

vars == <<config, activeSessions, isInitialized, calls, startResponse, resultResponse,
          llm, emb, rag, expansion, faiss, tasks, mock, chat>>

(* the state of the session controller, and that of the utility classes *)
triageVars == <<config, activeSessions, isInitialized, calls, startResponse, resultResponse>>
frontendVars == <<mock, chat>>
libraryVars == <<llm, emb, rag, expansion, faiss, tasks, frontendVars>>
otherThanLLM == <<emb, rag, expansion, faiss, tasks, frontendVars>>
otherThanEmb == <<llm, rag, expansion, faiss, tasks, frontendVars>>
otherThanRAG == <<llm, emb, expansion, faiss, tasks, frontendVars>>
otherThanExpansion == <<llm, emb, rag, faiss, tasks, frontendVars>>
otherThanFaiss == <<llm, emb, rag, expansion, tasks, frontendVars>>
otherThanEmbTasks == <<llm, rag, expansion, faiss, frontendVars>>

(* ---------------------------------------------------------- the frontend *)
(* a promise that has not settled *)
NoReply == [settled |-> FALSE]

(* no call of the mock service *)
NoMockCall ==
  [pc |-> "idle", op |-> "", chatHistory |-> <<>>, chiefComplaint |-> <<>>,
   stored |-> Null, response |-> NoReply]

(* App.handleFormSubmit shows the chat step with a chat history of one system
   message; ChatInterface starts with an empty input, not processing, the
   staged service with its module variables as declared; submits and settled
   count the submit events and the settled calls, pending holds the argument
   of each processTriageMessage call in flight, timers the results whose
   onComplete is scheduled. The effect that runs
   on mount schedules the initial question when it sees a history of length
   1: it does when React batches setStep and setChatHistory, and does not
   when the component is first rendered with the empty history. *)
ChatInterface(initialQuestion) ==
  [chatHistory |-> <<Message("system", <<"Hello,", "I'm", "AutoMed">>)>>,
   userInput |-> <<>>, isProcessing |-> FALSE, pending |-> <<>>,
   initialQuestion |-> initialQuestion, submits |-> 0, settled |-> 0,
   currentStage |-> "initial", questionCount |-> 0,
   collectedInfo |-> [analysis |-> Null, urgencyLevel |-> Undefined],
   service |-> "staged", chiefComplaint |-> <<"cough">>, response |-> NoReply,
   timers |-> <<>>, step |-> "chat", triageResult |-> Null]

(* req.user.id, as authenticate sets it: the users, and the user who makes
   the n-th POST /triage/start or /triage/message request (each of these
   requests comes from a different user) *)
Users == 1..MaxSessions
requestUser(n) == n

NoResult == [sessionId |-> 0, user |-> 0, result |-> Null, http |-> NoResponse]

idleCall ==
  [pc |-> "idle", sessionId |-> 0, turn |-> 0, response |-> UndefinedText,
   result |-> turnResult(UndefinedText, analyzeForTriageCompletion(SystemErrorAnalysis)),
   thrown |-> NoError, http |-> NoResponse, saved |-> ""]

Init ==
  /\ config \in [provider : Providers]
  /\ activeSessions = <<>>
  /\ isInitialized = FALSE
  /\ calls = [c \in CallIds |-> idleCall]
  /\ startResponse = NoResponse
  /\ resultResponse = NoResult
  /\ llm = LLMInterface("openai", 0)
  /\ emb = MedicalEmbeddingsUtility
  /\ rag = MedicalRAGSystem(4000, <<>>)
  /\ expansion = ExpandCall(<<>>)
  /\ faiss = FaissStore(MaxDim)
  /\ tasks = [search |-> NoSearch, write |-> NoWrite]
  /\ mock = NoMockCall
  /\ chat = ChatInterface(FALSE)

has(sessionId) == sessionId \in DOMAIN activeSessions

UserCount(messages) == Cardinality({ i \in DOMAIN messages : messages[i].role = "user" })

(* the request ends: locals are gone, the HTTP response is sent *)
finish(c, http) ==
  calls' = [calls EXCEPT ![c] = [idleCall EXCEPT !.pc = "done",
                                                 !.sessionId = calls[c].sessionId,
                                                 !.turn = calls[c].turn,
                                                 !.http = http]]

(* processUserMessage rejects with err: the controller's catch calls
   next(error), and errorHandler answers *)
reject(c, err) ==
  calls' = [calls EXCEPT ![c] = [idleCall EXCEPT !.pc = "done",
                                                 !.sessionId = calls[c].sessionId,
                                                 !.turn = calls[c].turn,
                                                 !.thrown = err,
                                                 !.http = errorHandler(err)]]

reusedId(sessions) == 1

(* uuidv4(): an id no session has *)
uuidv4(sessions) == Len(sessions) + 1

(* Map.prototype.set *)
set(sessions, sessionId, session) ==
  [id \in DOMAIN sessions \cup {sessionId} |->
     IF id = sessionId THEN session ELSE sessions[id]]

alwaysNull(sessionId) == Null

(* triageService.getTriageResult *)
getTriageResult(sessionId) ==
  IF ~has(sessionId) \/ ~activeSessions[sessionId].complete
  THEN Null
  ELSE activeSessions[sessionId].triageResult

(* startTriageSession -> createSession, the generation call succeeding *)
CreateSession ==
  /\ Len(activeSessions) < MaxSessions
  /\ \E g \in GenerationOutcomes(config.provider) :
       /\ g.ok
       /\ LET sessionId == uuidv4(activeSessions)
          IN /\ activeSessions' = set(activeSessions, sessionId,
                                      newSession(generateSystemContext, g.text,
                                                 requestUser(sessionId)))
             /\ startResponse' = [status |-> 201, success |-> TRUE,
                                  sessionId |-> sessionId, greeting |-> g.text]
  /\ UNCHANGED <<config, isInitialized, calls, resultResponse, libraryVars>>

(* startTriageSession -> createSession, the generation call failing *)
CreateSessionFails ==
  /\ Len(activeSessions) < MaxSessions
  /\ \E g \in GenerationOutcomes(config.provider) :
       /\ ~g.ok
       /\ startResponse' = errorHandler(Error("Failed to generate response from language model"))
  /\ UNCHANGED <<config, activeSessions, isInitialized, calls, resultResponse, libraryVars>>


(* The next request is the first call id not yet used. *)
nextCall(c) == calls[c].pc = "idle" /\ \A d \in CallIds : d < c => calls[d].pc # "idle"

(* processMessage: the body lacks sessionId or message -> 400 *)
RejectRequest(c) ==
  /\ nextCall(c)
  /\ calls' = [calls EXCEPT ![c] = [idleCall EXCEPT !.pc = "done", !.http = badRequest]]
  /\ UNCHANGED <<config, activeSessions, isInitialized, startResponse, resultResponse, libraryVars>>

(* processUserMessage: no such session -> throw, the controller hands the
   error to errorHandler *)
SessionNotFound(c) ==
  /\ nextCall(c)
  /\ \E sessionId \in SessionIds :
       /\ ~has(sessionId)
       /\ calls' = [calls EXCEPT ![c] = [idleCall EXCEPT
                      !.pc = "done", !.sessionId = sessionId,
                      !.thrown = Error("Session not found"),
                      !.http = errorHandler(Error("Session not found"))]]
  /\ UNCHANGED <<config, activeSessions, isInitialized, startResponse, resultResponse, libraryVars>>

(* processUserMessage up to its first await: push the user message and call
   retrieveRelevantMedicalInfo, which awaits ensureInitialized() *)
ProcessUserMessage(c) ==
  /\ nextCall(c)
  /\ \E sessionId \in SessionIds, message \in UserTexts :
       /\ has(sessionId)
       /\ activeSessions' = [activeSessions EXCEPT ![sessionId].messages =
                               push(@, Message("user", message))]
       /\ calls' = [calls EXCEPT ![c] = [idleCall EXCEPT
                      !.pc = IF isInitialized THEN "retrieve" ELSE "initializeRAG",
                      !.sessionId = sessionId,
                      !.turn = UserCount(activeSessions[sessionId].messages) + 1]]
  /\ UNCHANGED <<config, isInitialized, startResponse, resultResponse, libraryVars>>

(* ensureInitialized: initializeRAG() resolves *)
InitializeRAG(c) ==
  /\ calls[c].pc = "initializeRAG"
  /\ isInitialized' = TRUE
  /\ calls' = [calls EXCEPT ![c].pc = "retrieve"]
  /\ UNCHANGED <<config, activeSessions, startResponse, resultResponse, libraryVars>>

(* ensureInitialized: initializeRAG() rejects; the await is outside the try
   of retrieveRelevantMedicalInfo, so processUserMessage rejects *)
InitializeRAGFails(c) ==
  /\ calls[c].pc = "initializeRAG"
  /\ reject(c, Error("vector store unavailable"))
  /\ UNCHANGED <<config, activeSessions, isInitialized, startResponse, resultResponse, libraryVars>>

(* retrieveRelevantMedicalInfo returns (the formatted results, or "" from its
   catch); processUserMessage rewrites the system message and calls
   generateResponse *)
Retrieve(c) ==
  /\ calls[c].pc = "retrieve"
  /\ \E relevantInfo \in Contexts \cup {EmptyString} :
       activeSessions' = [activeSessions EXCEPT ![calls[c].sessionId].messages =
                            enhanceSystemContext(@, relevantInfo)]
  /\ calls' = [calls EXCEPT ![c].pc = "generateResponse"]
  /\ UNCHANGED <<config, isInitialized, startResponse, resultResponse, libraryVars>>

(* generateResponse returns; processUserMessage calls analyzeForTriageCompletion *)
GenerateResponse(c) ==
  /\ calls[c].pc = "generateResponse"
  /\ \E g \in GenerationOutcomes(config.provider) :
       /\ g.ok
       /\ calls' = [calls EXCEPT ![c].pc = "generateAnalysis", ![c].response = g.text]
  /\ UNCHANGED <<config, activeSessions, isInitialized, startResponse, resultResponse, libraryVars>>

(* generateResponse throws; processUserMessage rejects *)
GenerateResponseFails(c) ==
  /\ calls[c].pc = "generateResponse"
  /\ \E g \in GenerationOutcomes(config.provider) :
       /\ ~g.ok
       /\ reject(c, Error("Failed to generate response from language model"))
  /\ UNCHANGED <<config, activeSessions, isInitialized, startResponse, resultResponse, libraryVars>>

(* generateAnalysis returns; analyzeForTriageCompletion reads it; then
   processUserMessage pushes the assistant message and, if the triage can be
   completed, marks the session and awaits saveTriage *)
Analyze(c) ==
  /\ calls[c].pc = "generateAnalysis"
  /\ \E outcome \in AnalysisOutcomes :
       LET analysisResult == analyzeForTriageCompletion(generateAnalysis(config.provider, outcome))
           sessionId == calls[c].sessionId
           session == [activeSessions[sessionId] EXCEPT
                         !.messages = push(@, Message("assistant", calls[c].response))]
       IN IF analysisResult.threw
          THEN /\ reject(c, TypeError)
               /\ UNCHANGED activeSessions
          ELSE /\ activeSessions' = [activeSessions EXCEPT ![sessionId] =
                                       completeTriage(session, analysisResult)]
               /\ IF analysisResult.canComplete
                  THEN calls' = [calls EXCEPT
                                   ![c].pc = "saveTriage",
                                   ![c].result = turnResult(calls[c].response, analysisResult)]
                  ELSE finish(c, messageResponse(turnResult(calls[c].response, analysisResult)))
  /\ UNCHANGED <<config, isInitialized, startResponse, resultResponse, libraryVars>>

rethrows(created) == [threw |-> ~created]

(* saveTriage: TriageResultModel.create is awaited inside try, and the catch
   only logs, so saveTriage resolves whether the record was created or not *)
saveTriage(created) == [threw |-> FALSE]

(* TriageResultModel.create resolves or rejects and saveTriage resolves;
   processUserMessage returns *)
SaveTriage(c) ==
  /\ calls[c].pc = "saveTriage"
  /\ \E created \in BOOLEAN :
       LET err == Error("Failed to save triage record")
           done == [idleCall EXCEPT !.pc = "done",
                                    !.sessionId = calls[c].sessionId,
                                    !.turn = calls[c].turn,
                                    !.saved = IF created THEN "created" ELSE "failed"]
       IN IF saveTriage(created).threw
          THEN calls' = [calls EXCEPT ![c] = [done EXCEPT !.thrown = err,
                                                          !.http = errorHandler(err)]]
          ELSE calls' = [calls EXCEPT ![c] = [done EXCEPT
                                                !.http = messageResponse(calls[c].result)]]
  /\ UNCHANGED <<config, activeSessions, isInitialized, startResponse, resultResponse, libraryVars>>

(* GET /triage/result/:sessionId: the controller's getTriageResult and the
   service's; there is no await between reading the session and answering *)
GetTriageResult ==
  /\ \E sessionId \in SessionIds, user \in Users :
       LET result == getTriageResult(sessionId)
       IN resultResponse' =
            [sessionId |-> sessionId, user |-> user, result |-> result,
             http |-> IF result = Null
                      THEN [status |-> 404, error |-> "Triage session not found"]
                      ELSE [status |-> 200, success |-> TRUE]]
  /\ UNCHANGED <<config, activeSessions, isInitialized, calls, startResponse, libraryVars>>

Next ==
  \/ CreateSession
  \/ CreateSessionFails
  \/ GetTriageResult
  \/ \E c \in CallIds :
       \/ RejectRequest(c)
       \/ SessionNotFound(c)
       \/ ProcessUserMessage(c)
       \/ InitializeRAG(c)
       \/ InitializeRAGFails(c)
       \/ Retrieve(c)
       \/ GenerateResponse(c)
       \/ GenerateResponseFails(c)
       \/ Analyze(c)
       \/ SaveTriage(c)

Spec == Init /\ [][Next]_vars


(* ---------------------------------------- LLMInterface.generateResponse *)
InitTriage ==
  /\ config = [provider |-> "openai"]
  /\ activeSessions = <<>>
  /\ isInitialized = FALSE
  /\ calls = [c \in CallIds |-> idleCall]
  /\ startResponse = NoResponse
  /\ resultResponse = NoResult

InitLLM ==
  /\ InitTriage
  /\ emb = MedicalEmbeddingsUtility
  /\ rag = MedicalRAGSystem(4000, <<>>)
  /\ expansion = ExpandCall(<<>>)
  /\ faiss = FaissStore(MaxDim)
  /\ tasks = [search |-> NoSearch, write |-> NoWrite]
  /\ mock = NoMockCall
  /\ chat = ChatInterface(FALSE)
  /\ llm \in { LLMInterface(provider, maxRetries) :
                 provider \in LLMProviders, maxRetries \in ConfiguredRetries }

(* generateResponse is called: await this.initialize() resolves, the loop
   starts with attempt = 1 and sends the first request *)
LLMGenerateResponse ==
  /\ llm.pc = "idle"
  /\ llm.initialized \/ llm.provider \in {"openai", "langchain-openai"}
  /\ llm' = [llm EXCEPT !.initialized = TRUE,
                        !.pc = IF 1 <= llm.maxRetries THEN "request" ELSE "returned",
                        !.attempt = 1, !.failures = <<>>, !.delay = 0,
                        !.returned = UndefinedText, !.error = ""]
  /\ UNCHANGED <<triageVars, otherThanLLM>>

(* initialize(): default branch of the switch, rethrown by its catch *)
LLMInitializeFails ==
  /\ llm.pc = "idle"
  /\ ~llm.initialized /\ llm.provider \notin {"openai", "langchain-openai"}
  /\ llm' = [llm EXCEPT !.pc = "threw", !.attempt = 0, !.failures = <<>>, !.delay = 0,
                        !.returned = UndefinedText,
                        !.error = "LLM initialization error"]
  /\ UNCHANGED <<triageVars, otherThanLLM>>

(* the provider call resolves: return this.sanitizeResponse(response) *)
LLMRequestSucceeds ==
  /\ llm.pc = "request"
  /\ \E response \in ProviderReplies :
       llm' = [llm EXCEPT !.pc = "returned", !.returned = sanitizeResponse(response)]
  /\ UNCHANGED <<triageVars, otherThanLLM>>

(* the provider call rejects: the catch block, up to its await or throw, or
   on to the next iteration of the loop *)
LLMRequestFails ==
  /\ llm.pc = "request"
  /\ \E status \in Statuses :
       LET isLastAttempt == llm.attempt = llm.maxRetries
           failed == [llm EXCEPT !.failures = Append(@, status)]
       IN IF retryable(status) /\ ~isLastAttempt
          THEN llm' = [failed EXCEPT !.pc = "backoff", !.delay = backoffDelay(llm.attempt)]
          ELSE IF isLastAttempt
          THEN llm' = [failed EXCEPT !.pc = "threw",
                                     !.error = "Failed to generate LLM response"]
          ELSE llm' = [failed EXCEPT !.attempt = @ + 1,
                                     !.pc = IF llm.attempt + 1 <= llm.maxRetries
                                            THEN "request" ELSE "returned"]
  /\ UNCHANGED <<triageVars, otherThanLLM>>

(* the backoff timer fires: attempt++ and the next request *)
LLMBackoff ==
  /\ llm.pc = "backoff"
  /\ llm' = [llm EXCEPT !.attempt = @ + 1,
                        !.pc = IF llm.attempt + 1 <= llm.maxRetries THEN "request" ELSE "returned"]
  /\ UNCHANGED <<triageVars, otherThanLLM>>

(* the caller has its answer; the singleton is ready for the next call *)
LLMCallEnds ==
  /\ llm.pc \in {"returned", "threw"}
  /\ llm' = [llm EXCEPT !.pc = "idle"]
  /\ UNCHANGED <<triageVars, otherThanLLM>>

NextLLM ==
  \/ LLMGenerateResponse
  \/ LLMInitializeFails
  \/ LLMRequestSucceeds
  \/ LLMRequestFails
  \/ LLMBackoff
  \/ LLMCallEnds

SpecLLM == InitLLM /\ [][NextLLM]_vars


(* ----------------------------------------- MedicalRAGSystem.processTriage *)
InitRAG ==
  /\ InitTriage
  /\ emb = MedicalEmbeddingsUtility
  /\ llm = LLMInterface("openai", 0)
  /\ rag \in { MedicalRAGSystem(maxContextLength, relevantDocs) :
                 maxContextLength \in ContextLengths, relevantDocs \in DocLists }
  /\ expansion = ExpandCall(<<>>)
  /\ faiss = FaissStore(MaxDim)
  /\ tasks = [search |-> NoSearch, write |-> NoWrite]
  /\ mock = NoMockCall
  /\ chat = ChatInterface(FALSE)

(* truncatedDocs = this._truncateContext(relevantDocs, maxContextLength),
   the prompt is built and llmClient.generateText is awaited *)
RAGTruncateContext ==
  /\ rag.pc = "retrieved"
  /\ rag' = [rag EXCEPT !.pc = "generateText",
                        !.truncatedDocs = truncateContext(rag.relevantDocs, rag.maxContextLength)]
  /\ UNCHANGED <<triageVars, otherThanRAG>>

(* generateText resolves: the urgency level is read off the answer and the
   result object returned *)
RAGExtractUrgency ==
  /\ rag.pc = "generateText"
  /\ \E triageResponse \in TriageResponses :
       rag' = [rag EXCEPT !.pc = "returned",
                          !.relevantDocs = <<>>, !.truncatedDocs = <<>>,
                          !.triageResponse = triageResponse,
                          !.urgencyLevel = extractUrgencyLevel(triageResponse),
                          !.referenceCount = Len(rag.truncatedDocs)]
  /\ UNCHANGED <<triageVars, otherThanRAG>>

(* generateText rejects: the catch logs and rethrows *)
RAGGenerateTextFails ==
  /\ rag.pc = "generateText"
  /\ rag' = [rag EXCEPT !.pc = "threw", !.relevantDocs = <<>>, !.truncatedDocs = <<>>]
  /\ UNCHANGED <<triageVars, otherThanRAG>>

NextRAG ==
  \/ RAGTruncateContext
  \/ RAGExtractUrgency
  \/ RAGGenerateTextFails

SpecRAG == InitRAG /\ [][NextRAG]_vars

(* ------------------------------------------ MedicalEmbeddingsUtility *)
InitIndex ==
  /\ InitTriage
  /\ llm = LLMInterface("openai", 0)
  /\ rag = MedicalRAGSystem(4000, <<>>)
  /\ expansion = ExpandCall(<<>>)
  /\ faiss = FaissStore(MaxDim)
  /\ tasks = [search |-> NoSearch, write |-> NoWrite]
  /\ mock = NoMockCall
  /\ chat = ChatInterface(FALSE)
  /\ emb = MedicalEmbeddingsUtility

(* indexDocuments / updateIndex with texts and metadata of different
   lengths: throws before anything is done *)
EmbLengthMismatch ==
  /\ \E op \in {"indexDocuments", "updateIndex"}, texts \in TextLists :
       emb' = [emb EXCEPT !.call = [NoCall EXCEPT !.op = op, !.threw = TRUE, !.texts = texts]]
  /\ UNCHANGED <<triageVars, otherThanEmb>>

(* indexDocuments(texts, metadata) *)
EmbIndexDocuments ==
  /\ \E texts \in TextLists :
       LET built == indexDocuments(emb, texts)
       IN emb' = [built.util EXCEPT !.call = [NoCall EXCEPT !.op = "indexDocuments",
                                                            !.threw = built.threw,
                                                            !.texts = texts]]
  /\ UNCHANGED <<triageVars, otherThanEmb>>

(* updateIndex(newTexts, newMetadata) *)
EmbUpdateIndex ==
  /\ \E newTexts \in TextLists :
       LET call == [NoCall EXCEPT !.op = "updateIndex", !.texts = newTexts]
           updated == updateIndex(emb, newTexts)
       IN /\ Len(emb.index) + Len(newTexts) <= MaxVectors
          /\ emb' = [updated.util EXCEPT !.call = [call EXCEPT !.threw = updated.threw]]
  /\ UNCHANGED <<triageVars, otherThanEmb>>

(* removeDocuments(indicesToRemove) *)
EmbRemoveDocuments ==
  /\ \E indicesToRemove \in SUBSET (0..(MaxVectors - 1)) :
       LET call == [NoCall EXCEPT !.op = "removeDocuments", !.indicesToRemove = indicesToRemove]
           removed == removeDocuments(emb, indicesToRemove)
       IN emb' = [removed.util EXCEPT !.call = [call EXCEPT !.threw = removed.threw]]
  /\ UNCHANGED <<triageVars, otherThanEmb>>

(* search(query, k) *)
EmbSearch ==
  /\ \E query \in Queries, k \in SearchSizes :
       LET call == [NoCall EXCEPT !.op = "search", !.query = query, !.k = k]
       IN IF ~emb.hasIndex \/ ~emb.hasDocuments
          THEN emb' = [emb EXCEPT !.call = [call EXCEPT !.threw = TRUE]]
          ELSE \E results \in search(emb.index, emb.documentMetadata, query, k) :
                 emb' = [emb EXCEPT !.call = [call EXCEPT !.results = results]]
  /\ UNCHANGED <<triageVars, otherThanEmb>>

(* getMedicalContext(query, k, formatOutput, filterFn) *)
EmbGetMedicalContext ==
  /\ \E query \in Queries, k \in ContextSizes, formatOutput \in BOOLEAN, filterFn \in FilterFns :
       LET call == [NoCall EXCEPT !.op = "getMedicalContext", !.query = query, !.k = k,
                                  !.filterFn = filterFn]
       IN IF ~emb.hasIndex \/ ~emb.hasDocuments
          THEN emb' = [emb EXCEPT !.call = [call EXCEPT !.threw = TRUE]]
          ELSE \E results \in search(emb.index, emb.documentMetadata, query,
                                     IF filterFn.given THEN k * 2 ELSE k) :
                 emb' = [emb EXCEPT !.call = [call EXCEPT !.results =
                           getMedicalContext(results, k, formatOutput, filterFn)]]
  /\ UNCHANGED <<triageVars, otherThanEmb>>

(* addMedicalDocuments(documents, reindex) *)
EmbAddMedicalDocuments ==
  /\ \E texts \in TextLists, reindex \in BOOLEAN :
       LET added == addMedicalDocuments(emb, texts, reindex)
       IN /\ ~reindex => Len(emb.index) + Len(texts) <= MaxVectors
          /\ emb' = [added.util EXCEPT !.call =
                       [NoCall EXCEPT !.op = "addMedicalDocuments", !.texts = texts,
                                      !.reindex = reindex, !.status = added.status]]
  /\ UNCHANGED <<triageVars, otherThanEmb>>

NextIndex ==
  \/ EmbLengthMismatch
  \/ EmbIndexDocuments
  \/ EmbUpdateIndex
  \/ EmbRemoveDocuments
  \/ EmbSearch
  \/ EmbGetMedicalContext
  \/ EmbAddMedicalDocuments

SpecIndex == InitIndex /\ [][NextIndex]_vars

(* ------------------------------------ MedicalRAGSystem.expandMedicalQuery *)
InitExpand ==
  /\ InitTriage
  /\ llm = LLMInterface("openai", 0)
  /\ emb = MedicalEmbeddingsUtility
  /\ rag = MedicalRAGSystem(4000, <<>>)
  /\ expansion \in { ExpandCall(query) : query \in ExpandQueries }
  /\ faiss = FaissStore(MaxDim)
  /\ tasks = [search |-> NoSearch, write |-> NoWrite]
  /\ mock = NoMockCall
  /\ chat = ChatInterface(FALSE)

(* the entities are extracted and the expansions appended *)
ExpandQuery ==
  /\ expansion.pc = "called"
  /\ LET expanded == expandMedicalQuery(expansion.query)
     IN expansion' = [expansion EXCEPT !.pc = "returned",
                                       !.expandedQuery = expanded.expandedQuery,
                                       !.appended = expanded.appended]
  /\ UNCHANGED <<triageVars, otherThanExpansion>>

(* something throws: extractMedicalEntities answers with no entities from
   its catch, or expandMedicalQuery's own catch returns the query *)
ExpandQueryFails ==
  /\ expansion.pc = "called"
  /\ expansion' = [expansion EXCEPT !.pc = "failed", !.expandedQuery = expansion.query]
  /\ UNCHANGED <<triageVars, otherThanExpansion>>

NextExpand ==
  \/ ExpandQuery
  \/ ExpandQueryFails

SpecExpand == InitExpand /\ [][NextExpand]_vars

(* ------------------------ buildFaissIndex and updateIndex, vector lengths *)
InitFaiss ==
  /\ InitTriage
  /\ llm = LLMInterface("openai", 0)
  /\ emb = MedicalEmbeddingsUtility
  /\ rag = MedicalRAGSystem(4000, <<>>)
  /\ expansion = ExpandCall(<<>>)
  /\ faiss \in { FaissStore(d) : d \in Dims }
  /\ tasks = [search |-> NoSearch, write |-> NoWrite]
  /\ mock = NoMockCall
  /\ chat = ChatInterface(FALSE)

(* buildFaissIndex(embeddings), as indexDocuments, removeDocuments and the
   first updateIndex call it: a new IndexFlatL2(this.embeddingDim), add, and
   this.index = index only if add did not throw *)
FaissBuildIndex ==
  /\ \E embeddings \in EmbeddingLists :
       LET added == IndexFlatL2add(<<>>, faiss.embeddingDim, flat(embeddings))
       IN faiss' = [faiss EXCEPT !.op = "buildFaissIndex", !.embeddings = embeddings,
                                 !.threw = added.threw,
                                 !.hasIndex = IF added.threw THEN @ ELSE TRUE,
                                 !.index = IF added.threw THEN @ ELSE added.index]
  /\ UNCHANGED <<triageVars, otherThanFaiss>>

(* updateIndex with an index present: this.index.add(embeddingArray) *)
FaissUpdateIndex ==
  /\ faiss.hasIndex
  /\ Len(faiss.index) < MaxVectors
  /\ \E newEmbeddings \in EmbeddingLists :
       LET added == IndexFlatL2add(faiss.index, faiss.embeddingDim, flat(newEmbeddings))
       IN faiss' = [faiss EXCEPT !.op = "updateIndex", !.embeddings = newEmbeddings,
                                 !.threw = added.threw, !.index = added.index]
  /\ UNCHANGED <<triageVars, otherThanFaiss>>

NextFaiss ==
  \/ FaissBuildIndex
  \/ FaissUpdateIndex

SpecFaiss == InitFaiss /\ [][NextFaiss]_vars

(* --------------------------- a search and an index write under way at once *)
(* the utility as constructed, or as an earlier indexDocuments left it; one
   search and one write are then called, in either order *)
InitConcurrent ==
  /\ InitTriage
  /\ llm = LLMInterface("openai", 0)
  /\ emb \in {MedicalEmbeddingsUtility}
             \cup { indexDocuments(MedicalEmbeddingsUtility, texts).util : texts \in TextLists }
  /\ rag = MedicalRAGSystem(4000, <<>>)
  /\ expansion = ExpandCall(<<>>)
  /\ faiss = FaissStore(MaxDim)
  /\ tasks = [search |-> NoSearch, write |-> NoWrite]
  /\ mock = NoMockCall
  /\ chat = ChatInterface(FALSE)

(* search is called, once: it throws without an index or metadata, else it
   awaits initializeModel and this.model(query) *)
SearchCalled ==
  /\ tasks.search.pc = "idle"
  /\ \E query \in Queries, k \in SearchSizes :
       tasks' = [tasks EXCEPT !.search =
                   [NoSearch EXCEPT
                      !.pc = IF ~emb.hasIndex \/ ~emb.hasDocuments THEN "threw" ELSE "model",
                      !.query = query, !.k = k, !.indexAtCall = emb.index]]
  /\ UNCHANGED <<triageVars, emb, otherThanEmbTasks>>

(* the query embedding is there: search queries the index, maps the ids to
   metadata and returns, without an await in between *)
SearchQueriesIndex ==
  /\ tasks.search.pc = "model"
  /\ LET index == indexRead(tasks.search, emb)
     IN \E results \in search(index, emb.documentMetadata, tasks.search.query, tasks.search.k) :
          tasks' = [tasks EXCEPT !.search.pc = "returned",
                                 !.search.read = [pairOf(emb) EXCEPT !.index = index],
                                 !.search.results = results]
  /\ UNCHANGED <<triageVars, emb, otherThanEmbTasks>>

(* indexDocuments or updateIndex is called: it awaits embedText *)
WriteCalled ==
  /\ tasks.write.pc = "idle"
  /\ \E op \in {"indexDocuments", "updateIndex"}, texts \in TextLists :
       /\ op = "updateIndex" => Len(emb.index) + Len(texts) <= MaxVectors
       /\ tasks' = [tasks EXCEPT !.write =
                      [NoWrite EXCEPT !.pc = "embedText", !.op = op, !.texts = texts,
                                      !.before = pairOf(emb)]]
  /\ UNCHANGED <<triageVars, emb, otherThanEmbTasks>>

(* embedText has resolved: the write changes the index, the embeddings and
   the metadata, up to its first save or its throw *)
WriteApplies ==
  /\ tasks.write.pc = "embedText"
  /\ LET written == IF tasks.write.op = "indexDocuments"
                    THEN indexDocuments(emb, tasks.write.texts)
                    ELSE updateIndex(emb, tasks.write.texts)
     IN /\ emb' = written.util
        /\ tasks' = [tasks EXCEPT !.write.pc = IF written.threw THEN "threw" ELSE "saving",
                                  !.write.after = pairOf(written.util)]
  /\ UNCHANGED <<triageVars, otherThanEmbTasks>>

(* removeDocuments is called: it filters and rebuilds before its first await *)
RemoveCalled ==
  /\ tasks.write.pc = "idle"
  /\ \E indicesToRemove \in SUBSET (0..(MaxVectors - 1)) :
       LET removed == removeDocuments(emb, indicesToRemove)
       IN /\ emb' = removed.util
          /\ tasks' = [tasks EXCEPT !.write =
                         [NoWrite EXCEPT !.pc = IF removed.threw THEN "threw" ELSE "saving",
                                         !.op = "removeDocuments",
                                         !.before = pairOf(emb),
                                         !.after = pairOf(removed.util)]]
  /\ UNCHANGED <<triageVars, otherThanEmbTasks>>

(* saveIndex, saveEmbeddings and saveMetadata have resolved: the write returns *)
WriteSaved ==
  /\ tasks.write.pc = "saving"
  /\ tasks' = [tasks EXCEPT !.write.pc = "returned"]
  /\ UNCHANGED <<triageVars, emb, otherThanEmbTasks>>

NextConcurrent ==
  \/ SearchCalled
  \/ SearchQueriesIndex
  \/ WriteCalled
  \/ WriteApplies
  \/ RemoveCalled
  \/ WriteSaved

SpecConcurrent == InitConcurrent /\ [][NextConcurrent]_vars

(* ------------------------------------------------------------ properties *)
Sessions == DOMAIN activeSessions

started(c) == calls[c].pc = "idle" /\ calls'[c].pc # "idle"

(* String.prototype.toLowerCase, word by word *)
toLowerCase(text) ==
  [i \in DOMAIN text |->
     CASE text[i] = "I" -> "i"
       [] text[i] = "CAN'T" -> "can't"
       [] text[i] = "BREATHE" -> "breathe"
       [] OTHER -> text[i]]

(* String.prototype.includes *)
includes(text, phrase) ==
  \E k \in 0..(Len(text) - Len(phrase)) :
    \A j \in 1..Len(phrase) : text[k + j] = phrase[j]

EmergencyIndicators == { <<"can't", "breathe">>, <<"10", "out", "of", "10">> }

hasEmergencyWords(messages) ==
  \E i \in DOMAIN messages :
    /\ messages[i].role = "user"
    /\ \E phrase \in EmergencyIndicators : includes(toLowerCase(messages[i].content), phrase)

(* ------------------------------ the frontend's offline mock triage service *)
(* the longest chat history handed to the mock service *)
MaxHistory == 6

URGENCY_LEVELS ==
  [EMERGENCY |-> "emergency", URGENT |-> "urgent",
   SEMI_URGENT |-> "semi-urgent", NON_URGENT |-> "non-urgent"]

(* patientData.chiefComplaint, one for each branch of analyzeMockComplaint *)
Complaints == { <<"chest", "pain">>, <<"fever">>, <<"rash">>, <<"cough">> }

(* analyzeMockComplaint: potentialUrgency and redFlags (followUpQuestions is
   read nowhere) *)
analyzeMockComplaint(complaint) ==
  LET complaintLower == toLowerCase(complaint) IN
  IF \/ includes(complaintLower, <<"chest", "pain">>)
     \/ includes(complaintLower, <<"difficulty", "breathing">>)
     \/ includes(complaintLower, <<"severe", "bleeding">>)
     \/ includes(complaintLower, <<"unconscious">>)
  THEN [potentialUrgency |-> URGENCY_LEVELS.EMERGENCY,
        redFlags |-> << <<"severe", "chest", "pain">>, <<"difficulty", "breathing">>,
                        <<"loss", "of", "consciousness">>, <<"bluish", "lips", "or", "face">> >>]
  ELSE IF \/ includes(complaintLower, <<"fever">>)
          \/ includes(complaintLower, <<"vomiting">>)
          \/ includes(complaintLower, <<"headache">>)
  THEN [potentialUrgency |-> URGENCY_LEVELS.URGENT,
        redFlags |-> << <<"high", "fever", "above", "103F/39.4C">>, <<"stiff", "neck">>,
                        <<"severe", "vomiting">>, <<"inability", "to", "keep", "fluids", "down">> >>]
  ELSE IF \/ includes(complaintLower, <<"ear">>)
          \/ includes(complaintLower, <<"throat">>)
          \/ includes(complaintLower, <<"rash">>)
  THEN [potentialUrgency |-> URGENCY_LEVELS.SEMI_URGENT,
        redFlags |-> << <<"spreading", "rash">>, <<"severe", "ear", "pain">>,
                        <<"difficulty", "swallowing">>, <<"voice", "changes">> >>]
  ELSE [potentialUrgency |-> URGENCY_LEVELS.NON_URGENT,
        redFlags |-> << <<"worsening", "symptoms">>,
                        <<"symptoms", "lasting", "more", "than", "a", "week">>,
                        <<"affected", "daily", "activities">> >>]

(* {}: an object without potentialUrgency and without redFlags *)
EmptyObject == [potentialUrgency |-> Undefined, redFlags |-> UndefinedList]

(* JSON.parse(localStorage.getItem('mockComplaintAnalysis')) || fallback: the
   item is absent, or what mockInitializeSession stored for a complaint *)
storedOr(stored, fallback) == IF stored = Null THEN fallback ELSE stored

(* chatHistory.filter(msg => msg.role === 'user') *)
userMessagesOf(chatHistory) ==
  LET isUser(msg) == msg.role = "user" IN SelectSeq(chatHistory, isUser)

mockEmergencyWords ==
  { <<"severe">>, <<"excruciating">>, <<"worst">>, <<"can't", "breathe">>,
    <<"10", "out", "of", "10">> }

(* the upgrade without the test for EMERGENCY *)
unguardedUpgrade(urgencyLevel, hasWords) ==
  IF hasWords THEN URGENCY_LEVELS.URGENT ELSE urgencyLevel

(* if (hasEmergencyWords && urgencyLevel !== EMERGENCY) urgencyLevel = URGENT *)
emergencyUpgrade(urgencyLevel, hasWords) ==
  IF hasWords /\ urgencyLevel # URGENCY_LEVELS.EMERGENCY
  THEN URGENCY_LEVELS.URGENT ELSE urgencyLevel

(* if (redFlagsMentioned) NON_URGENT becomes SEMI_URGENT, SEMI_URGENT URGENT *)
redFlagUpgrade(urgencyLevel, redFlagsMentioned) ==
  IF ~redFlagsMentioned THEN urgencyLevel
  ELSE IF urgencyLevel = URGENCY_LEVELS.NON_URGENT THEN URGENCY_LEVELS.SEMI_URGENT
  ELSE IF urgencyLevel = URGENCY_LEVELS.SEMI_URGENT THEN URGENCY_LEVELS.URGENT
  ELSE urgencyLevel

(* generateMockTriageResult: the urgency level of the result; its
   recommendation, warnings and nextSteps are texts chosen by that level *)
generateMockTriageResult(patientData, chatHistory, complaintAnalysis) ==
  LET initial == IF complaintAnalysis.potentialUrgency = Undefined
                 THEN URGENCY_LEVELS.NON_URGENT ELSE complaintAnalysis.potentialUrgency
      users == userMessagesOf(chatHistory)
      userMessages == [i \in DOMAIN users |-> toLowerCase(users[i].content)]
      hasWords == \E i \in DOMAIN userMessages :
                    \E w \in mockEmergencyWords : includes(userMessages[i], w)
      redFlagsMentioned ==
        /\ complaintAnalysis.redFlags # UndefinedList
        /\ \E f \in DOMAIN complaintAnalysis.redFlags : \E i \in DOMAIN userMessages :
             includes(userMessages[i], toLowerCase(complaintAnalysis.redFlags[f]))
  IN [urgencyLevel |-> IF chatHistory # <<>>
                       THEN redFlagUpgrade(emergencyUpgrade(initial, hasWords), redFlagsMentioned)
                       ELSE initial]

(* every message counted, whatever its role *)
historyLength(chatHistory) == Len(chatHistory)

(* chatHistory.filter(msg => msg.role === 'user').length *)
conversationTurn(chatHistory) == Len(userMessagesOf(chatHistory))

(* mockProcessMessage: the object its promise resolves with *)
mockProcessMessage(chatHistory, patientData, stored) ==
  LET complaintAnalysis == storedOr(stored, analyzeMockComplaint(patientData.chiefComplaint))
      turn == conversationTurn(chatHistory)
  IN CASE turn = 1 ->
            [message |-> <<"How", "long", "have", "you", "been", "experiencing", "these", "symptoms?">>,
             complete |-> FALSE]
       [] turn = 2 ->
            [message |-> <<"On", "a", "scale", "of", "1-10,", "how", "would", "you", "rate", "the", "severity?">>,
             complete |-> FALSE]
       [] turn = 3 ->
            [message |-> <<"Are", "you", "experiencing", "any", "other", "symptoms", "along", "with", "your">>
                           \o toLowerCase(patientData.chiefComplaint),
             complete |-> FALSE]
       [] turn = 4 ->
            [message |-> <<"Have", "you", "experienced", "any", "of", "the", "following:">>
                           \o join(complaintAnalysis.redFlags, <<",">>),
             complete |-> FALSE]
       [] turn = 5 ->
            [message |-> <<"I", "have", "enough", "information", "now">>,
             complete |-> TRUE,
             result |-> generateMockTriageResult(patientData, chatHistory, complaintAnalysis)]
       [] OTHER ->
            [message |-> <<"Can", "you", "provide", "any", "additional", "details?">>,
             complete |-> FALSE]

(* mockCompleteSession: the result its promise resolves with *)
mockCompleteSession(stored) ==
  generateMockTriageResult(EmptyObject, <<>>, storedOr(stored, EmptyObject))

(* the arguments of a call: chat histories of user and assistant messages,
   the user saying something mild, an emergency phrase or two red flags *)
MockMessages ==
  { Message("assistant", <<"How", "long?">>) }
    \cup { Message("user", c) : c \in { <<"mild">>, <<"I", "CAN'T", "BREATHE">>,
                                        <<"spreading", "rash", "worsening", "symptoms">> } }

MockHistories == UNION { [1..n -> MockMessages] : n \in 0..MaxHistory }

StoredAnalyses == { Null, analyzeMockComplaint(<<"rash">>) }

InitMock ==
  /\ InitTriage
  /\ llm = LLMInterface("openai", 0)
  /\ emb = MedicalEmbeddingsUtility
  /\ rag = MedicalRAGSystem(4000, <<>>)
  /\ expansion = ExpandCall(<<>>)
  /\ faiss = FaissStore(MaxDim)
  /\ tasks = [search |-> NoSearch, write |-> NoWrite]
  /\ \E h \in MockHistories : \E c \in Complaints : \E s \in StoredAnalyses :
       mock = [NoMockCall EXCEPT !.pc = "called", !.chatHistory = h,
                                 !.chiefComplaint = c, !.stored = s]
  /\ chat = ChatInterface(FALSE)

(* processTriageMessage with the API unavailable: the catch returns
   mockProcessMessage(chatHistory, patientData) *)
MockProcessMessage ==
  /\ mock.pc = "called"
  /\ mock' = [mock EXCEPT !.pc = "returned", !.op = "mockProcessMessage",
                          !.response = mockProcessMessage(mock.chatHistory,
                                         [chiefComplaint |-> mock.chiefComplaint], mock.stored)]
  /\ UNCHANGED <<triageVars, llm, emb, rag, expansion, faiss, tasks, chat>>

(* completeTriageSession with the API unavailable: the catch returns
   mockCompleteSession() *)
MockCompleteSession ==
  /\ mock.pc = "called"
  /\ mock' = [mock EXCEPT !.pc = "returned", !.op = "mockCompleteSession",
                          !.response = mockCompleteSession(mock.stored)]
  /\ UNCHANGED <<triageVars, llm, emb, rag, expansion, faiss, tasks, chat>>

NextMock ==
  \/ MockProcessMessage
  \/ MockCompleteSession

SpecMock == InitMock /\ [][NextMock]_vars

(* ----------------------- the staged triage service and the chat component *)
(* the submit events of one chat *)
MaxSubmits == 7

TRIAGE_STAGES ==
  [INITIAL |-> "initial", SYMPTOM_DETAILS |-> "symptom_details",
   MEDICAL_HISTORY_RELEVANCE |-> "medical_history_relevance", RED_FLAGS |-> "red_flags",
   CLARIFICATION |-> "clarification", FINAL |-> "final"]

(* analyzeChiefComplaint: four questions, potentialUrgency and redFlags *)
analyzeChiefComplaint(complaint) ==
  IF includes(toLowerCase(complaint), <<"chest", "pain">>)
  THEN [nextQuestions |-> << <<"Is", "the", "pain", "sharp,", "dull,", "crushing,", "or", "burning?">>,
                             <<"Does", "the", "pain", "radiate?">>,
                             <<"On", "a", "scale", "of", "1-10,", "how", "severe", "is", "the", "pain?">>,
                             <<"Any", "shortness", "of", "breath,", "nausea,", "or", "sweating?">> >>,
        potentialUrgency |-> "emergency",
        redFlags |-> << <<"chest", "pain", "radiating", "to", "arm", "or", "jaw">>,
                        <<"shortness", "of", "breath">>, <<"nausea", "with", "chest", "pain">> >>]
  ELSE IF includes(toLowerCase(complaint), <<"headache">>)
  THEN [nextQuestions |-> << <<"How", "long", "have", "you", "had", "this", "headache?">>,
                             <<"On", "a", "scale", "of", "1-10,", "how", "severe", "is", "the", "pain?">>,
                             <<"Any", "nausea,", "vomiting,", "or", "sensitivity", "to", "light?">>,
                             <<"Any", "confusion", "or", "weakness", "on", "one", "side?">> >>,
        potentialUrgency |-> "semi-urgent",
        redFlags |-> << <<"worst", "headache", "of", "life">>, <<"sudden", "onset">>,
                        <<"neurological", "symptoms">> >>]
  ELSE [nextQuestions |-> << <<"How", "long", "have", "you", "been", "experiencing", "these", "symptoms?">>,
                             <<"On", "a", "scale", "of", "1-10,", "how", "severe?">>,
                             <<"Have", "you", "experienced", "these", "symptoms", "before?">>,
                             <<"Does", "anything", "make", "the", "symptoms", "better", "or", "worse?">> >>,
        potentialUrgency |-> "non-urgent",
        redFlags |-> <<>>]

(* what a call ends with other than a returned object: the function body
   ends without return, or an identifier that the module does not declare is
   evaluated *)
ReturnedUndefined == [type |-> "undefined"]
ReferenceError == [thrown |-> "ReferenceError"]

(* processTriageMessage of the staged service, after its delay: the module
   variables it leaves and what it returns. st holds currentStage,
   questionCount and collectedInfo (analysis and urgencyLevel; lastResponse,
   relevantMedicalHistory and additionalInfo are written and read nowhere).
   nextQuestions[questionCount] is 0-based. *)
processTriageMessage(st, chatHistory, patientData) ==
  LET userMessage == chatHistory[Len(chatHistory)].content
      questionCount == st.questionCount + 1
      info == st.collectedInfo
      to(stage, collectedInfo, response) ==
        [currentStage |-> stage, questionCount |-> questionCount,
         collectedInfo |-> collectedInfo, response |-> response]
      ask(message) == [message |-> message, complete |-> FALSE]
  IN CASE st.currentStage = TRIAGE_STAGES.INITIAL ->
            LET analysis == analyzeChiefComplaint(patientData.chiefComplaint) IN
            to(TRIAGE_STAGES.SYMPTOM_DETAILS, [info EXCEPT !.analysis = analysis],
               ask(analysis.nextQuestions[1]))
       [] st.currentStage = TRIAGE_STAGES.SYMPTOM_DETAILS ->
            IF questionCount < 3
            THEN to(st.currentStage, info, ask(info.analysis.nextQuestions[questionCount + 1]))
            ELSE to(TRIAGE_STAGES.RED_FLAGS, info,
                    ask(<<"Have", "you", "experienced", "any", "of", "the", "following:">>
                          \o join(info.analysis.redFlags, <<",">>)))
       [] st.currentStage = TRIAGE_STAGES.RED_FLAGS ->
            LET hasRedFlags ==
                  \E f \in DOMAIN info.analysis.redFlags :
                    \/ includes(toLowerCase(userMessage), <<"yes">>)
                    \/ includes(toLowerCase(userMessage), toLowerCase(info.analysis.redFlags[f]))
            IN to(TRIAGE_STAGES.MEDICAL_HISTORY_RELEVANCE,
                  IF hasRedFlags THEN [info EXCEPT !.urgencyLevel = "urgent"] ELSE info,
                  ask(<<"Do", "you", "have", "any", "relevant", "medical", "history?">>))
       [] st.currentStage = TRIAGE_STAGES.MEDICAL_HISTORY_RELEVANCE ->
            to(TRIAGE_STAGES.CLARIFICATION, info,
               ask(<<"Is", "there", "anything", "else", "important?">>))
       [] st.currentStage = TRIAGE_STAGES.CLARIFICATION ->
            (* getRecommendationByUrgency(urgencyLevel) is evaluated for the
               object to return; the module declares no such function *)
            to(TRIAGE_STAGES.FINAL, info, ReferenceError)
       [] OTHER ->
            (* the switch has no case for FINAL *)
            to(st.currentStage, info, ReturnedUndefined)

(* what the user types into the empty textarea: a blank, an answer *)
ChatInputs == { <<" ">>, <<"yes">> }

ChatComplaints == { <<"chest", "pain">>, <<"headache">>, <<"cough">> }

(* the module that '../services/triageService' resolves to: the staged
   service, or the API client whose requests fail and that falls back to
   mockProcessMessage *)
ChatServices == {"staged", "offline"}

(* String.prototype.trim, the blank being the only whitespace *)
RECURSIVE trim(_)
trim(string) ==
  IF string # <<>> /\ Head(string) = " " THEN trim(Tail(string))
  ELSE IF string # <<>> /\ string[Len(string)] = " "
       THEN trim(SubSeq(string, 1, Len(string) - 1))
  ELSE string

(* handleSubmit without its guard *)
neverIgnored(userInput, isProcessing) == FALSE

(* if (!userInput.trim() || isProcessing) return *)
ignored(userInput, isProcessing) == trim(userInput) = <<>> \/ isProcessing

Apology == <<"I'm", "sorry,", "I", "encountered", "an", "error">>

InitChat ==
  /\ InitTriage
  /\ llm = LLMInterface("openai", 0)
  /\ emb = MedicalEmbeddingsUtility
  /\ rag = MedicalRAGSystem(4000, <<>>)
  /\ expansion = ExpandCall(<<>>)
  /\ faiss = FaissStore(MaxDim)
  /\ tasks = [search |-> NoSearch, write |-> NoWrite]
  /\ mock = NoMockCall
  /\ \E service \in ChatServices : \E complaint \in ChatComplaints : \E q \in BOOLEAN :
       chat = [ChatInterface(q) EXCEPT !.service = service, !.chiefComplaint = complaint]

notChat == <<triageVars, llm, emb, rag, expansion, faiss, tasks, mock>>

(* the timer of the mount effect fires: the initial question is appended *)
InitialQuestion ==
  /\ chat.initialQuestion
  /\ chat' = [chat EXCEPT
       !.initialQuestion = FALSE,
       !.chatHistory = Append(@, Message("assistant",
                         <<"Could", "you", "please", "tell", "me", "more", "about", "your">>
                           \o toLowerCase(chat.chiefComplaint)))]
  /\ UNCHANGED notChat

(* onChange of the textarea, which is disabled while isProcessing *)
SetUserInput(value) ==
  /\ chat.step = "chat"
  /\ ~chat.isProcessing
  /\ chat' = [chat EXCEPT !.userInput = value]
  /\ UNCHANGED notChat

(* a submit event of the form: handleSubmit up to its await. React renders
   again before the next event is dispatched, so the handler reads the
   current userInput, isProcessing and chatHistory. *)
HandleSubmit ==
  /\ chat.step = "chat"
  /\ chat.submits < MaxSubmits
  /\ IF ignored(chat.userInput, chat.isProcessing)
     THEN chat' = [chat EXCEPT !.submits = @ + 1]
     ELSE LET userMessage == Message("user", chat.userInput) IN
          chat' = [chat EXCEPT
            !.submits = @ + 1,
            !.chatHistory = Append(@, userMessage),
            !.userInput = <<>>,
            !.isProcessing = TRUE,
            !.pending = Append(@, Append(chat.chatHistory, userMessage))]
  /\ UNCHANGED notChat

(* the oldest pending processTriageMessage call settles and handleSubmit
   runs from its await to its end: the reply or, when the call threw or
   returned nothing to read .complete from, the apology is appended, a
   complete response schedules onComplete(response.result), and finally
   isProcessing is cleared *)
ProcessTriageMessageSettles ==
  /\ chat.pending # <<>>
  /\ LET patientData == [chiefComplaint |-> chat.chiefComplaint]
         st == IF chat.service = "staged"
               THEN processTriageMessage(chat, Head(chat.pending), patientData)
               ELSE [currentStage |-> chat.currentStage, questionCount |-> chat.questionCount,
                     collectedInfo |-> chat.collectedInfo,
                     response |-> mockProcessMessage(Head(chat.pending), patientData, Null)]
         replied == "complete" \in DOMAIN st.response
         content == IF replied THEN st.response.message ELSE Apology
     IN chat' = [chat EXCEPT
          !.pending = Tail(@),
          !.currentStage = st.currentStage,
          !.questionCount = st.questionCount,
          !.collectedInfo = st.collectedInfo,
          !.response = st.response,
          !.chatHistory = Append(@, Message("assistant", content)),
          !.timers = IF replied /\ st.response.complete
                     THEN Append(@, st.response.result) ELSE @,
          !.isProcessing = FALSE,
          !.settled = @ + 1]
  /\ UNCHANGED notChat

(* the timer of a complete response fires: App.handleChatComplete stores the
   result and shows the result step, which unmounts ChatInterface and
   discards its state *)
OnComplete ==
  /\ chat.timers # <<>>
  /\ chat' = [chat EXCEPT
       !.timers = Tail(@),
       !.triageResult = Head(chat.timers),
       !.step = "result",
       !.userInput = <<>>,
       !.isProcessing = FALSE]
  /\ UNCHANGED notChat

NextChat ==
  \/ InitialQuestion
  \/ \E value \in ChatInputs : SetUserInput(value)
  \/ HandleSubmit
  \/ ProcessTriageMessageSettles
  \/ OnComplete

SpecChat == InitChat /\ [][NextChat]_vars

(* the delay of the staged service ends and a request of the API client
   fails at the latest when its timeout fires: a pending call settles *)
SpecChatLive == SpecChat /\ WF_vars(ProcessTriageMessageSettles)

(* C1: a processUserMessage call on a session that is COMPLETE fails with an
   error and leaves the session's messages, status and result as they were. *)
C1_CompleteSessionRejectsMessage ==
  [][\A c \in CallIds : \A s \in Sessions :
       (started(c) /\ calls'[c].sessionId = s /\ activeSessions[s].complete)
         => /\ activeSessions'[s] = activeSessions[s]
            /\ calls'[c].pc = "done"
            /\ calls'[c].http.status >= 400]_vars

(* C2: the response to the (maxConversationTurns+1)-th user message of a
   session (and to any later one) has complete = true. *)
C2_TurnCeilingForcesCompletion ==
  \A c \in CallIds :
    (calls[c].pc = "done" /\ calls[c].http.status = 200
       /\ calls[c].turn > maxConversationTurns)
      => calls[c].http.complete

(* C3: a result stored for a conversation whose user text contains an
   emergency indicator has urgency Emergency or Urgent. *)
C3_EmergencyFloor ==
  [][\A s \in Sessions :
       (/\ activeSessions'[s].triageResult # activeSessions[s].triageResult
        /\ hasEmergencyWords(activeSessions'[s].messages))
         => activeSessions'[s].triageResult.urgencyLevel \in {"Emergency", "Urgent"}]_vars

(* C4: a session holds a triage result if and only if it is complete. *)
C4_ResultIffComplete ==
  \A s \in Sessions :
    (activeSessions[s].triageResult # Null) <=> activeSessions[s].complete

C4_Witness ==
  \E c \in CallIds :
    /\ calls[c].pc = "done" /\ calls[c].http.status = 200 /\ calls[c].http.complete
    /\ activeSessions[calls[c].sessionId].complete
    /\ activeSessions[calls[c].sessionId].triageResult # Null
    /\ \E s \in Sessions : ~activeSessions[s].complete /\ UserCount(activeSessions[s].messages) > 0

(* C5: once a session's triage result is stored, no later step changes it. *)
C5_ResultImmutable ==
  [][\A s \in Sessions :
       activeSessions[s].triageResult # Null
         => activeSessions'[s].triageResult = activeSessions[s].triageResult]_vars

(* C6: a session that is complete stays complete. *)
C6_CompleteIsStable ==
  [][\A s \in Sessions :
       activeSessions[s].complete
         => s \in DOMAIN activeSessions' /\ activeSessions'[s].complete]_vars

(* a later turn of a completed session has returned "not complete", and the
   session is still complete *)
C6_Witness ==
  \E c, d \in CallIds :
    /\ calls[c].sessionId = calls[d].sessionId
    /\ calls[d].pc = "done" /\ calls[d].http.status = 200 /\ calls[d].http.complete
    /\ calls[c].pc = "done" /\ calls[c].http.status = 200 /\ ~calls[c].http.complete
    /\ calls[c].turn > calls[d].turn
    /\ activeSessions[calls[c].sessionId].complete

(* C7: messages only grows, and every recorded message keeps its position and
   role, every user and assistant message its content as well. *)
C7_MessagesAppendOnly ==
  [][\A s \in Sessions :
       LET old == activeSessions[s].messages
           new == activeSessions'[s].messages
       IN /\ Len(new) >= Len(old)
          /\ \A i \in 1..Len(old) :
               /\ new[i].role = old[i].role
               /\ old[i].role \in {"user", "assistant"} => new[i].content = old[i].content]_vars

C7_Witness ==
  \E s \in Sessions :
    LET m == activeSessions[s].messages
    IN /\ Len(m) = 6
       /\ m[3].role = "user" /\ m[4].role = "assistant"
       /\ m[5].role = "user" /\ m[6].role = "assistant"
       /\ m[1].content # generateSystemContext

(* C8: the step that receives the completion analysis never fails the call:
   it appends the assistant reply and the call goes on to a 200 response. *)
C8_AnalysisFailureIsSoft ==
  [][\A c \in CallIds :
       (calls[c].pc = "generateAnalysis" /\ calls'[c].pc # "generateAnalysis")
         => /\ calls'[c].pc = "saveTriage" \/ calls'[c].http.status = 200
            /\ LET m == activeSessions'[calls[c].sessionId].messages
               IN m[Len(m)].role = "assistant"]_vars

(* C9: a failure in the retrieval layer (initialization, embedding, search)
   never ends the call: the turn goes on to generate the reply. *)
C9_RetrievalFailureIsSoft ==
  [][\A c \in CallIds :
       (calls[c].pc \in {"initializeRAG", "retrieve"} /\ calls'[c].pc # calls[c].pc)
         => calls'[c].pc \in {"retrieve", "generateResponse"}]_vars

(* C10: when the generation of the reply fails, the caller still gets a
   successful response carrying a reply, not an error response. *)
C10_GenerationFailureGetsReply ==
  [][\A c \in CallIds :
       (calls[c].pc = "generateResponse" /\ calls'[c].pc # "generateResponse")
         => \/ calls'[c].pc = "generateAnalysis"
            \/ calls'[c].http.status = 200]_vars

(* C11: generateResponse makes at most maxRetries provider calls, returns the
   first successful response or fails after the last allowed attempt, and
   never returns without a response.  For llmService.generateResponse, the
   one the session controller calls: the value it resolves to is always a
   response text. *)
C11_GenerateResponseReturnsResponse ==
  [][\A c \in CallIds :
       (calls[c].pc = "generateResponse" /\ calls'[c].pc = "generateAnalysis")
         => calls'[c].response # UndefinedText]_vars

(* LLMInterface.generateResponse keeps to the attempt ceiling and returns a
   (sanitized) text whenever it returns. *)
LLMInterfaceKeepsToCeiling ==
  /\ llm.attempt <= llm.maxRetries
  /\ Len(llm.failures) <= llm.maxRetries
  /\ llm.pc = "returned" => llm.returned # UndefinedText
  /\ (llm.pc = "threw" /\ llm.attempt > 0) => Len(llm.failures) = llm.maxRetries

(* C12: a failure of the provider call that is neither a 429 nor a 5xx ends
   generateResponse on that attempt: it throws, and no further attempt is
   made. *)
C12_NonRetryableFailurePropagates ==
  [][(/\ llm.pc = "request"
      /\ Len(llm'.failures) = Len(llm.failures) + 1
      /\ ~retryable(llm'.failures[Len(llm'.failures)]))
        => llm'.pc = "threw"]_vars

RECURSIVE totalContentLength(_)
totalContentLength(docs) ==
  IF docs = <<>> THEN 0
  ELSE contentOf(docs[1]) + totalContentLength(SubSeq(docs, 2, Len(docs)))

(* C13: the content lengths of the documents _truncateContext returns add up
   to at most maxLength, for every list of documents and every budget. *)
C13_TruncatedWithinBudget ==
  rag.pc = "generateText" => totalContentLength(rag.truncatedDocs) <= rag.maxContextLength

(* a document was cut to the remaining space, after one taken whole *)
C13_Witness ==
  /\ rag.pc = "generateText"
  /\ Len(rag.truncatedDocs) = 2
  /\ contentOf(rag.truncatedDocs[1]) > 0
  /\ rag.truncatedDocs[2].truncated
  /\ totalContentLength(rag.truncatedDocs) = rag.maxContextLength
  /\ Len(rag.relevantDocs) = 3

(* a level is mentioned when its keyword occurs; the URGENT inside
   SEMI-URGENT or NON-URGENT is no mention of URGENT *)
mentionsUrgent(text) ==
  \E i \in DOMAIN text :
    /\ toUpperCase(text[i]) = "URGENT"
    /\ ~(i > 2 /\ text[i - 1] = "-" /\ toUpperCase(text[i - 2]) \in {"SEMI", "NON"})

keywordPrecedence(text) ==
  IF test(<<"EMERGENCY">>, text) THEN "EMERGENCY"
  ELSE IF mentionsUrgent(text) THEN "URGENT"
  ELSE IF test(<<"SEMI", "-", "URGENT">>, text) THEN "SEMI-URGENT"
  ELSE IF test(<<"NON", "-", "URGENT">>, text) THEN "NON-URGENT"
  ELSE "UNKNOWN"

(* C16: the urgency level read off the model's text is the highest-precedence
   level (EMERGENCY > URGENT > SEMI-URGENT > NON-URGENT) whose keyword occurs
   in it, and UNKNOWN when none occurs. *)
C16_UrgencyKeywordPrecedence ==
  rag.pc = "returned" => rag.urgencyLevel = keywordPrecedence(rag.triageResponse)

pairwiseDistinct(embeddings) ==
  \A i, j \in DOMAIN embeddings : i # j => embeddings[i] # embeddings[j]

(* C14: while the documents present have pairwise distinct embeddings, a
   search with the text of document i (its query vector is the document's
   embedding) returns document i's metadata as the first result, after any
   sequence of indexDocuments, updateIndex and removeDocuments calls. *)
C14_SelfRetrieval ==
  (emb.call.op = "search" /\ emb.hasDocuments /\ pairwiseDistinct(emb.documentEmbeddings))
    => \A i \in DOMAIN emb.documentMetadata :
         embedding(emb.call.query) = emb.documentEmbeddings[i]
           => /\ ~emb.call.threw
              /\ emb.call.results # <<>>
              /\ emb.call.results[1].source = emb.documentMetadata[i].source

(* C15: removeDocuments leaves exactly the retained documents, and an index
   holding their vectors and no others, whichever indices are removed. *)
C15_RemoveRebuildsFromRetained ==
  [][(emb' # emb /\ emb'.call.op = "removeDocuments" /\ emb.hasDocuments)
       => /\ ~emb'.call.threw
          /\ emb'.documentMetadata =
               filterKept(emb.documentMetadata, 1, emb'.call.indicesToRemove)
          /\ emb'.index = filterKept(emb.documentEmbeddings, 1, emb'.call.indicesToRemove)]_vars

(* the urgency categories, as the system prompt names them, and Unknown *)
UrgencyLevels == {"Emergency", "Urgent", "Semi-urgent", "Non-urgent", "Unknown"}

(* C17: the result stored in a complete session has an urgency level that is
   one of the defined levels. *)
C17_UrgencyLevelDefined ==
  \A s \in Sessions :
    (activeSessions[s].complete /\ activeSessions[s].triageResult # Null)
      => activeSessions[s].triageResult.urgencyLevel \in UrgencyLevels

(* C18: processUserMessage with a session id that is not in the store fails
   with the error 'Session not found', creates no session and changes none. *)
C18_UnknownSessionFails ==
  [][\A c \in CallIds :
       (started(c) /\ calls'[c].sessionId # 0 /\ ~has(calls'[c].sessionId))
         => /\ calls'[c].pc = "done"
            /\ calls'[c].thrown.name = "Error"
            /\ calls'[c].thrown.message = "Session not found"
            /\ calls'[c].http.status >= 400
            /\ activeSessions' = activeSessions]_vars

(* a call on an unknown id has failed while another session, with a user
   turn under way, exists *)
C18_Witness ==
  \E c \in CallIds :
    /\ calls[c].pc = "done"
    /\ calls[c].thrown.message = "Session not found"
    /\ calls[c].sessionId \notin Sessions
    /\ \E s \in Sessions : UserCount(activeSessions[s].messages) > 0

(* C19: getTriageResult returns null for an unknown session id and for a
   session that is not complete, the stored result for a complete session,
   and changes no session. *)
C19_GetTriageResultReadsOnly ==
  [][\A s \in SessionIds :
       (resultResponse' # resultResponse /\ resultResponse'.sessionId = s)
         => /\ s \notin Sessions => resultResponse'.result = Null
            /\ (s \in Sessions /\ ~activeSessions[s].complete) => resultResponse'.result = Null
            /\ (s \in Sessions /\ activeSessions[s].complete)
                 => resultResponse'.result = activeSessions[s].triageResult
            /\ activeSessions' = activeSessions
            /\ calls' = calls]_vars

(* the result of a complete session was returned, while the other session id
   is still active *)
C19_Witness ==
  /\ resultResponse.sessionId \in Sessions
  /\ activeSessions[resultResponse.sessionId].complete
  /\ resultResponse.result = activeSessions[resultResponse.sessionId].triageResult
  /\ resultResponse.result # Null
  /\ resultResponse.http.status = 200
  /\ \E s \in Sessions : ~activeSessions[s].complete

(* C20: a step of a processUserMessage call changes no session but its own,
   and createSession changes no existing session, under every interleaving. *)
C20_SessionsIndependent ==
  [][/\ \A c \in CallIds :
          calls'[c] # calls[c]
            => \A b \in Sessions :
                 b # calls'[c].sessionId
                   => b \in DOMAIN activeSessions' /\ activeSessions'[b] = activeSessions[b]
     /\ calls' = calls
          => \A b \in Sessions :
               b \in DOMAIN activeSessions' /\ activeSessions'[b] = activeSessions[b]]_vars

(* two calls on different sessions are under way at once, each past its
   first await, and both sessions have changed *)
C20_Witness ==
  \E c, d \in CallIds :
    /\ calls[c].sessionId # calls[d].sessionId
    /\ calls[c].pc \in {"generateResponse", "generateAnalysis", "saveTriage"}
    /\ calls[d].pc \in {"retrieve", "generateResponse", "generateAnalysis"}
    /\ UserCount(activeSessions[calls[c].sessionId].messages) = 1
    /\ UserCount(activeSessions[calls[d].sessionId].messages) = 1

(* C21: the expanded query starts with the original query, what follows
   only lists synonym terms, none of which occurs (without regard to case)
   in the original query, and the result is the original query when no known
   entity matches or the expansion fails. *)
C21_ExpansionAdditive ==
  expansion.pc \in {"returned", "failed"}
    => /\ Len(expansion.expandedQuery) >= Len(expansion.query)
       /\ SubSeq(expansion.expandedQuery, 1, Len(expansion.query)) = expansion.query
       /\ \A i \in DOMAIN expansion.appended :
            /\ ~includesString(lowerCase(expansion.query), lowerCase(expansion.appended[i]))
            /\ includesString(SubSeq(expansion.expandedQuery, Len(expansion.query) + 1,
                                      Len(expansion.expandedQuery)),
                              expansion.appended[i])
       /\ (expansion.appended = <<>>) <=> (expansion.expandedQuery = expansion.query)
       /\ (\A e \in {chars.pain, chars.headache, chars.cough, chars.asthma} : ~regexTest(e, expansion.query))
            => expansion.expandedQuery = expansion.query
       /\ expansion.pc = "failed" => expansion.expandedQuery = expansion.query

(* a query naming two entities got terms for both, one of the first entity's
   terms being left out because the query contains it *)
C21_Witness ==
  /\ expansion.pc = "returned"
  /\ expansion.query = join(<<chars.pain, chars.Headache, chars.cough>>, <<" ">>)
  /\ expansion.appended = <<chars.discomfort, chars.soreness, chars.expectoration, chars.hacking, chars.wheezing,
                            chars.migraine, chars.headPain, chars.cephalgia>>
  /\ Len(expansion.expandedQuery) > Len(expansion.query)

(* C30: a failure with status 429 or 5xx on an attempt before the last is
   followed by a wait of 2^attempt seconds (2 s after attempt 1, 4 s after
   attempt 2) and only then by the next attempt; a failure on the last
   attempt is followed by no wait, and nothing but the end of a wait moves a
   waiting call on. *)
C30_BackoffDoubles ==
  [][/\ (llm.pc = "request" /\ Len(llm'.failures) = Len(llm.failures) + 1)
          => LET status == llm'.failures[Len(llm'.failures)]
             IN /\ ((status = 429 \/ status >= 500) /\ llm.attempt < llm.maxRetries)
                     => /\ llm'.pc = "backoff"
                        /\ llm'.attempt = llm.attempt
                        /\ llm'.delay = IF llm.attempt = 1 THEN 2000
                                        ELSE IF llm.attempt = 2 THEN 4000
                                        ELSE 2 * 1000 * (2 ^ (llm.attempt - 1))
                /\ llm.attempt = llm.maxRetries
                     => llm'.pc = "threw" /\ llm'.delay = llm.delay
     /\ (llm.pc = "backoff" /\ llm'.pc # "backoff")
          => llm'.attempt = llm.attempt + 1 /\ llm'.pc = "request"]_vars

(* a call waits 4 s after its second attempt failed with a 503, the first
   having failed with a 429 *)
C30_Witness ==
  /\ llm.pc = "backoff"
  /\ llm.failures = <<429, 503>>
  /\ llm.attempt = 2
  /\ llm.delay = 4000

inFlight(c) == calls[c].pc \notin {"idle", "done"}

(* C23: when a turn starts its completion analysis, the session's history
   already ends with the assistant reply of that turn. *)
C23_AnalysisSeesReply ==
  [][\A c \in CallIds :
       (calls[c].pc # "generateAnalysis" /\ calls'[c].pc = "generateAnalysis")
         => LET m == activeSessions'[calls'[c].sessionId].messages
            IN /\ m[Len(m)].role = "assistant"
               /\ m[Len(m)].content = calls'[c].response]_vars

(* C24: a session's system message is the instruction written at creation,
   alone or followed by the context of one retrieval; contexts of earlier
   turns are not kept in it. *)
C24_SystemMessageRefreshed ==
  \A s \in Sessions :
    LET content == activeSessions[s].messages[1].content
    IN \/ content = generateSystemContext
       \/ \E relevantInfo \in Contexts \cup {EmptyString} :
            content = generateSystemContext \o <<"Relevant medical information:">>
                        \o relevantInfo

(* C25: a createSession that succeeds stores exactly one new session, not
   complete, without result, whose messages are the system instruction and
   the opening message it answers with, and leaves the other sessions alone;
   a createSession that fails leaves the session store unchanged. *)
C25_CreateSessionStoresOne ==
  [][/\ activeSessions' # activeSessions /\ calls' = calls
          => /\ Len(activeSessions') = Len(activeSessions) + 1
             /\ startResponse'.status = 201
             /\ startResponse'.sessionId = Len(activeSessions')
             /\ activeSessions'[Len(activeSessions')] =
                  [patientId |-> requestUser(Len(activeSessions')),
                   messages |-> << [role |-> "system", content |-> generateSystemContext],
                                   [role |-> "assistant", content |-> startResponse'.greeting] >>,
                   complete |-> FALSE,
                   triageResult |-> Null]
             /\ \A s \in Sessions : activeSessions'[s] = activeSessions[s]
     /\ (startResponse' # startResponse /\ startResponse'.status = 201)
          => Len(activeSessions') = Len(activeSessions) + 1
     /\ (startResponse' # startResponse /\ startResponse'.status # 201)
          => activeSessions' = activeSessions]_vars

(* one createSession stored a session with its two messages, and a later one
   failed and stored nothing *)
C25_Witness ==
  /\ startResponse.status = 500
  /\ Len(activeSessions) = 1
  /\ Len(activeSessions[1].messages) = 2
  /\ activeSessions[1].messages[2].role = "assistant"
  /\ ~activeSessions[1].complete

(* C26: whenever no call is under way on a session, its messages are system,
   assistant, then (user, assistant) pairs. *)
C26_MessagesPaired ==
  \A s \in Sessions :
    (\A c \in CallIds : inFlight(c) => calls[c].sessionId # s)
      => LET m == activeSessions[s].messages
         IN /\ Len(m) % 2 = 0
            /\ m[1].role = "system"
            /\ \A i \in 2..Len(m) :
                 m[i].role = IF i % 2 = 0 THEN "assistant" ELSE "user"

(* C27: no two processUserMessage calls on one session are under way at the
   same time. *)
C27_OneCallPerSession ==
  \A c, d \in CallIds :
    (c # d /\ inFlight(c) /\ inFlight(d)) => calls[c].sessionId # calls[d].sessionId

(* C22: a call that adds embeddings of which one has a length other than
   embeddingDim throws, and the index holds what it held before. *)
C22_DimensionMismatchRejected ==
  [][(faiss' # faiss
        /\ \E i \in DOMAIN faiss'.embeddings : Len(faiss'.embeddings[i]) # faiss.embeddingDim)
       => /\ faiss'.threw
          /\ faiss'.index = faiss.index
          /\ faiss'.hasIndex = faiss.hasIndex]_vars

(* C28: the index, documentEmbeddings and documentMetadata have the same
   number of entries, and entry i of each is of the same document (an index
   that was never built holds no vectors). *)
C28_IndexMatchesDocuments ==
  LET n == IF emb.hasIndex THEN Len(emb.index) ELSE 0
  IN /\ n = Len(emb.documentMetadata)
     /\ n = Len(emb.documentEmbeddings)
     /\ \A i \in 1..n :
          /\ emb.index[i] = emb.documentEmbeddings[i]
          /\ emb.documentEmbeddings[i] = embedding(emb.documentMetadata[i].source)

(* C29: when a search queries the index and maps the ids to metadata, the
   index and the metadata it uses are those from before the write that is
   under way, if the write has not changed anything yet, and those the write
   leaves, if it has; the results are results of that index with that
   metadata. *)
C29_SearchSeesWholeWrite ==
  [][(tasks.search.pc = "model" /\ tasks'.search.pc = "returned")
       => LET read == tasks'.search.read
          IN /\ tasks.write.pc = "embedText" => read = tasks.write.before
             /\ tasks.write.pc \in {"saving", "returned", "threw"}
                  => read = tasks.write.after
             /\ tasks'.search.results \in
                  { formatResults(found, 1, read.documentMetadata) :
                      found \in IndexFlatL2search(read.index,
                                                  embedding(tasks.search.query),
                                                  tasks.search.k) }]_vars

(* a search called before an updateIndex changed anything has queried the
   index while the write was saving, and got the new document *)
C29_Witness ==
  /\ tasks.search.pc = "returned"
  /\ tasks.write.pc = "saving"
  /\ tasks.write.op = "updateIndex"
  /\ tasks.search.indexAtCall = tasks.write.before.index
  /\ tasks.write.after.index # tasks.write.before.index
  /\ tasks.search.read = tasks.write.after
  /\ \E i \in DOMAIN tasks.search.results :
       tasks.search.results[i].source = tasks.write.texts[1]

(* C31: what _truncateContext returns is the longest prefix of the input
   that fits the budget, each document unchanged, followed by a cut copy of
   the next document (marked truncated, filling the budget) exactly when
   there is a next document and more than 100 characters remain; nothing of
   the input after that document is in the output. *)
C31_GreedyPrefix ==
  rag.pc = "generateText"
    => LET in == rag.relevantDocs
           out == rag.truncatedDocs
           cut == out # <<>> /\ out[Len(out)].truncated
           whole == IF cut THEN Len(out) - 1 ELSE Len(out)
           remaining == rag.maxContextLength - totalContentLength(SubSeq(in, 1, whole))
       IN /\ Len(out) <= Len(in)
          /\ \A i \in 1..whole : out[i] = in[i]
          /\ remaining >= 0
          /\ whole < Len(in) => contentOf(in[whole + 1]) > remaining
          /\ cut <=> (whole < Len(in) /\ remaining > 100)
          /\ cut => /\ out[Len(out)].content = remaining
                    /\ out[Len(out)].text = in[Len(out)].text

(* the second of three documents did not fit and was dropped, and the third,
   which would have fitted, is not in the output *)
C31_Witness ==
  /\ rag.pc = "generateText"
  /\ Len(rag.relevantDocs) = 3
  /\ Len(rag.truncatedDocs) = 1
  /\ contentOf(rag.relevantDocs[3]) > 0
  /\ contentOf(rag.relevantDocs[1]) + contentOf(rag.relevantDocs[3]) <= rag.maxContextLength

(* C32: getMedicalContext asked for k results gives at most k documents,
   with or without a filter, and with a filter every document it gives is
   one the filter accepts. *)
C32_AtMostKAndFiltered ==
  emb.call.op = "getMedicalContext"
    => /\ Len(emb.call.results) <= emb.call.k
       /\ emb.call.filterFn.given
            => \A i \in DOMAIN emb.call.results :
                 emb.call.results[i].source \in emb.call.filterFn.accepts

(* with k = 1 and a filter, two candidates were fetched, both of three
   indexed documents the filter accepts, and one was returned *)
C32_Witness ==
  /\ emb.call.op = "getMedicalContext"
  /\ emb.call.k = 1
  /\ emb.call.filterFn.given
  /\ Len(emb.call.results) = 1
  /\ Len(emb.index) = 3
  /\ Cardinality({ i \in DOMAIN emb.documentMetadata :
                     emb.documentMetadata[i].source \in emb.call.filterFn.accepts }) >= 2
  /\ emb.call.query = "aspirin"
  /\ emb.call.results[1].source \in {"aspirin", "fever"}

(* C33: when the triage record cannot be created, the call that completed
   the session still answers 200 with complete = true and the urgency level
   and recommended action of its result, and the session is left as it was:
   complete, with a result. *)
C33_SaveFailureTolerated ==
  [][\A c \in CallIds :
       (calls[c].pc = "saveTriage" /\ calls'[c].saved = "failed")
         => /\ calls'[c].pc = "done"
            /\ calls'[c].thrown = NoError
            /\ calls'[c].http.status = 200
            /\ calls'[c].http.complete = TRUE
            /\ calls[c].result.triageComplete = TRUE
            /\ calls'[c].http.response = calls[c].result.message
            /\ calls'[c].http.urgencyLevel = orNull(calls[c].result.urgencyLevel)
            /\ calls'[c].http.recommendedAction = orNull(calls[c].result.recommendedAction)
            /\ activeSessions' = activeSessions
            /\ activeSessions[calls[c].sessionId].complete
            /\ activeSessions[calls[c].sessionId].triageResult # Null]_vars

(* a call whose record could not be created has answered with complete =
   true and a defined urgency level, and its session is complete *)
C33_Witness ==
  \E c \in CallIds :
    /\ calls[c].pc = "done"
    /\ calls[c].saved = "failed"
    /\ calls[c].http.status = 200
    /\ calls[c].http.complete = TRUE
    /\ calls[c].http.urgencyLevel \in UrgencyLevels
    /\ activeSessions[calls[c].sessionId].complete
    /\ getTriageResult(calls[c].sessionId) # Null

(* C34: a processMessage request that is answered 200, or that changes a
   session, and a getTriageResult request that is answered with a result,
   come from the user who created the session. *)
C34_OwnerOnly ==
  [][/\ \A c \in CallIds :
          (calls'[c] # calls[c] /\ calls'[c].sessionId \in Sessions)
            => LET owner == activeSessions[calls'[c].sessionId].patientId
               IN /\ calls'[c].http.status = 200 => requestUser(c) = owner
                  /\ activeSessions' # activeSessions => requestUser(c) = owner
     /\ (resultResponse' # resultResponse /\ resultResponse'.result # Null)
          => resultResponse'.user = activeSessions[resultResponse'.sessionId].patientId]_vars

(* C35: addMedicalDocuments with reindex = true on a utility that holds
   documents answers "success" and leaves the metadata of the existing
   documents followed by that of the new ones, and an index with a vector for
   each. *)
C35_ReindexKeepsExisting ==
  [][(emb' # emb /\ emb'.call.op = "addMedicalDocuments" /\ emb'.call.reindex
        /\ emb.hasDocuments /\ emb.documentMetadata # <<>>)
       => /\ emb'.call.status = "success"
          /\ emb'.documentMetadata = emb.documentMetadata \o metadataOf(emb'.call.texts)
          /\ Len(emb'.index) = Len(emb'.documentMetadata)]_vars

(* C36: mockProcessMessage answers complete = true with a result when the
   chat history holds five user messages, and complete = false with a
   follow-up message and no result for every other number of them. *)
C36_CompleteAtFiveUserMessages ==
  (mock.pc = "returned" /\ mock.op = "mockProcessMessage")
    => IF UserCount(mock.chatHistory) = 5
       THEN /\ mock.response.complete
            /\ "result" \in DOMAIN mock.response
            /\ mock.response.result.urgencyLevel
                 \in { URGENCY_LEVELS[l] : l \in DOMAIN URGENCY_LEVELS }
       ELSE /\ ~mock.response.complete
            /\ "result" \notin DOMAIN mock.response
            /\ mock.response.message # <<>>

C36_Witness ==
  /\ mock.pc = "returned" /\ mock.op = "mockProcessMessage"
  /\ Len(mock.chatHistory) = 6 /\ UserCount(mock.chatHistory) = 5
  /\ mock.response.complete
  /\ mock.response.result = [urgencyLevel |-> "urgent"]

(* the order NON_URGENT < SEMI_URGENT < URGENT < EMERGENCY *)
severity(urgencyLevel) ==
  CASE urgencyLevel = URGENCY_LEVELS.EMERGENCY -> 3
    [] urgencyLevel = URGENCY_LEVELS.URGENT -> 2
    [] urgencyLevel = URGENCY_LEVELS.SEMI_URGENT -> 1
    [] OTHER -> 0

(* the result generateMockTriageResult returned in the call of the mock
   service, and the complaintAnalysis it was handed *)
mockResult ==
  IF mock.op = "mockCompleteSession" THEN mock.response ELSE mock.response.result

mockAnalysis ==
  IF mock.op = "mockCompleteSession" THEN storedOr(mock.stored, EmptyObject)
  ELSE storedOr(mock.stored, analyzeMockComplaint(mock.chiefComplaint))

mockResultReturned ==
  /\ mock.pc = "returned"
  /\ mock.op = "mockProcessMessage" => mock.response.complete

(* C38: the urgency level of the result generateMockTriageResult returns is
   one of the four levels and is at least as urgent as
   complaintAnalysis.potentialUrgency. *)
C38_UrgencyNeverLowered ==
  mockResultReturned
    => /\ mockResult.urgencyLevel \in { URGENCY_LEVELS[l] : l \in DOMAIN URGENCY_LEVELS }
       /\ severity(mockResult.urgencyLevel) >= severity(mockAnalysis.potentialUrgency)

C38_Witness ==
  /\ mockResultReturned /\ mock.op = "mockProcessMessage"
  /\ mockAnalysis.potentialUrgency = URGENCY_LEVELS.EMERGENCY
  /\ \E i \in DOMAIN mock.chatHistory :
       mock.chatHistory[i] = Message("user", <<"I", "CAN'T", "BREATHE">>)
  /\ mockResult.urgencyLevel = URGENCY_LEVELS.EMERGENCY

(* the two upgrades happen: a red flag raises NON_URGENT by one level, an
   emergency phrase raises it to URGENT *)
C38_Raised ==
  /\ mockResultReturned /\ mock.op = "mockProcessMessage"
  /\ mockAnalysis.potentialUrgency = URGENCY_LEVELS.NON_URGENT
  /\ mockResult.urgencyLevel = URGENCY_LEVELS.SEMI_URGENT

(* C37: every processTriageMessage call of the staged service returns an
   object that carries a message and a complete flag. *)
C37_EveryCallAnswers ==
  [][(chat'.settled = chat.settled + 1 /\ chat.service = "staged")
       => /\ "message" \in DOMAIN chat'.response
          /\ "complete" \in DOMAIN chat'.response]_vars

(* C39: at most one processTriageMessage call is in flight; a submit made
   while isProcessing is true or with blank input changes nothing, any other
   submit appends the user's message and sets isProcessing; the step in
   which a call settles appends exactly one assistant message and clears
   isProcessing; and isProcessing, once true, becomes false again. *)
C39_OneCallInFlight ==
  /\ [](Len(chat.pending) <= 1)
  /\ [][chat'.submits = chat.submits + 1
          => IF chat.isProcessing \/ trim(chat.userInput) = <<>>
             THEN /\ chat'.chatHistory = chat.chatHistory
                  /\ chat'.pending = chat.pending
                  /\ chat'.isProcessing = chat.isProcessing
             ELSE /\ chat'.chatHistory
                       = Append(chat.chatHistory, Message("user", chat.userInput))
                  /\ chat'.isProcessing
                  /\ Len(chat'.pending) = 1]_vars
  /\ [][chat'.settled = chat.settled + 1
          => /\ chat.isProcessing \/ chat.step = "result"
             /\ ~chat'.isProcessing
             /\ chat'.chatHistory
                  = Append(chat.chatHistory,
                           Message("assistant", IF "message" \in DOMAIN chat'.response
                                                THEN chat'.response.message ELSE Apology))]_vars
  /\ [][chat'.chatHistory # chat.chatHistory
          => \/ chat'.submits = chat.submits + 1
             \/ chat'.settled = chat.settled + 1
             \/ chat.initialQuestion /\ ~chat'.initialQuestion]_vars
  /\ (chat.isProcessing ~> ~chat.isProcessing)

C39_Witness ==
  /\ chat.submits > chat.settled + Len(chat.pending)
  /\ chat.settled >= 2
  /\ ~chat.isProcessing
  /\ chat.response = ReferenceError
  /\ chat.chatHistory[Len(chat.chatHistory)] = Message("assistant", Apology)
  /\ chat.chatHistory[Len(chat.chatHistory) - 2].role = "assistant"

====
